---- MODULE Spec2Model ----
(***************************************************************************)
(* Model of the page snapshot engine of browser-cli (src/src/snapshot.rs)  *)
(* and of the transport calls it makes (src/src/cdp.rs).                   *)
(*                                                                         *)
(* Encoding conventions                                                    *)
(*   Option<T>   a sequence of length <= 1: <<>> is None, <<v>> is Some(v) *)
(*   String      a sequence of non-empty atoms (characters or indivisible  *)
(*               tokens); the empty string is <<>>                         *)
(*   tree        a table (sequence) of node records; field parent is the   *)
(*               index of the node whose `children` vector holds the node  *)
(*               (0: the node is an element of the top-level vector);      *)
(*               children keep index order                                 *)
(***************************************************************************)
EXTENDS Integers, Sequences, FiniteSets, TLC

VARIABLES pc, opts, callOpts, calls, path, evalKind, axKind, result,
          kind, tree, emitted, minified, collapsed, miniRoots,
          next_id, page, arg, ret

vars == <<pc, opts, callOpts, calls, path, evalKind, axKind, result,
          kind, tree, emitted, minified, collapsed, miniRoots,
          next_id, page, arg, ret>>

(***************************************************************************)
(* Bounds of the model                                                     *)
(***************************************************************************)
\* largest number of nodes in a tree handed to a formatter
MaxNodes == 3
\* largest number of nodes in a tree carried by a transport reply
MaxReplyNodes == 2
\* largest number of nodes in a flat (childIds-linked) AX response
MaxFlatNodes == 2
\* largest value of the max_depth option
MaxDepthOpt == 1

\* largest number of props of the node whose line is built
MaxProps == 2

\* longest pattern and longest text handed to glob_match
MaxPattern == 3
MaxText == 3

\* requests on one connection in the transport model
MaxCalls == 2

\* websocket items delivered while one request waits
MaxStream == 2

(***************************************************************************)
(* Generic helpers                                                         *)
(***************************************************************************)
None == <<>>

Some(v) == <<v>>

IsSome(o) == Len(o) > 0

Range(s) == {s[i] : i \in 1..Len(s)}

RECURSIVE Flatten(_)
Flatten(ss) == IF Len(ss) = 0 THEN <<>> ELSE Head(ss) \o Flatten(Tail(ss))

\* "  ".repeat(depth)
Indent(depth) == [i \in 1..(2 * depth) |-> " "]

\* Vec<String>::join("\n")
RECURSIVE Join(_)
Join(ls) ==
    IF Len(ls) = 0 THEN <<>>
    ELSE IF Len(ls) = 1 THEN ls[1]
    ELSE ls[1] \o <<"\n">> \o Join(Tail(ls))

\* indices of the children of node n (0: the top-level vector), in order
Children(t, n) == SelectSeq([j \in 1..Len(t) |-> j], LAMBDA j : t[j].parent = n)

(***************************************************************************)
(* SnapshotOptions                                                         *)
(***************************************************************************)
INTERACTIVE_ROLES ==
    {"button", "link", "textbox", "checkbox", "radio", "combobox", "listbox",
     "menuitem", "menuitemcheckbox", "menuitemradio", "option", "searchbox",
     "slider", "spinbutton", "switch", "tab", "treeitem"}

INTERACTIVE_TAGS ==
    {"a", "button", "input", "select", "textarea", "details", "summary"}

\* INTERACTIVE_TAGS.contains(&tag)
IsInteractiveTag(tag) == Len(tag) = 1 /\ tag[1] \in INTERACTIVE_TAGS

\* the depth test off by one: depth >= max_depth
DepthCut_inclusive(depth, o) == IsSome(o.max_depth) /\ depth >= o.max_depth[1]

\* depth > max_depth, when max_depth is given
DepthCut(depth, o) == IsSome(o.max_depth) /\ depth > o.max_depth[1]


(***************************************************************************)
(* Name filter (fiber): name_matches_filter, glob_match                    *)
(***************************************************************************)
UpperCase == <<"A", "B", "C", "D", "E", "F", "G", "H", "I", "J", "K", "L", "M",
               "N", "O", "P", "Q", "R", "S", "T", "U", "V", "W", "X", "Y", "Z">>

LowerCase == <<"a", "b", "c", "d", "e", "f", "g", "h", "i", "j", "k", "l", "m",
               "n", "o", "p", "q", "r", "s", "t", "u", "v", "w", "x", "y", "z">>

\* char::to_ascii_lowercase
LowerChar(c) ==
    IF \E k \in 1..26 : UpperCase[k] = c
    THEN LowerCase[CHOOSE k \in 1..26 : UpperCase[k] = c]
    ELSE c

\* str::to_ascii_lowercase
to_ascii_lowercase(s) == [i \in 1..Len(s) |-> LowerChar(s[i])]

\* str::find: byte offset of the first occurrence of needle in hay, -1 for None
Find(hay, needle) ==
    LET offs == {k \in 0..(Len(hay) - Len(needle)) :
                    SubSeq(hay, k + 1, k + Len(needle)) = needle}
    IN  IF offs = {} THEN -1
        ELSE CHOOSE k \in offs : \A m \in offs : k <= m

\* str::split('*'), collected
RECURSIVE Split(_)
Split(s) ==
    LET stars == {k \in 1..Len(s) : s[k] = "*"}
    IN  IF stars = {} THEN <<s>>
        ELSE LET k == CHOOSE x \in stars : \A y \in stars : x <= y
             IN  <<SubSeq(s, 1, k - 1)>> \o Split(SubSeq(s, k + 1, Len(s)))

\* the for loop of glob_match from part i on; the final pos, or -1 when the
\* loop returns false
RECURSIVE GlobLoop(_, _, _, _)
GlobLoop(parts, i, pos, text) ==
    IF i > Len(parts) THEN pos
    ELSE IF parts[i] = <<>> THEN GlobLoop(parts, i + 1, pos, text)
    ELSE LET idx == Find(SubSeq(text, pos + 1, Len(text)), parts[i])
         IN  IF idx = -1 THEN -1
             ELSE IF i = 1 /\ idx # 0 THEN -1
             ELSE GlobLoop(parts, i + 1, pos + idx + Len(parts[i]), text)

glob_match(pattern, text) ==
    LET parts == Split(pattern)
    IN  IF Len(parts) = 1 THEN text = pattern
        ELSE LET pos == GlobLoop(parts, 1, 0, text)
             IN  /\ pos # -1
                 /\ \/ parts[Len(parts)] = <<>>
                    \/ pos = Len(text)

name_matches_filter(name, filter) ==
    LET name_lower   == to_ascii_lowercase(name)
        filter_lower == to_ascii_lowercase(filter)
    IN  IF "*" \in Range(filter)
        THEN glob_match(filter_lower, name_lower)
        ELSE Find(name_lower, filter_lower) # -1

(***************************************************************************)
(* Fiber formatter: has_interactive_descendant, format_fiber_node,         *)
(* collect_filtered_subtrees.  A formatter returns the sequence of its     *)
(* emissions [id, depth, line]: line is the string pushed onto `lines`,    *)
(* id and depth record which node pushed it and at which depth.            *)
(***************************************************************************)
RECURSIVE has_interactive_descendant(_, _)
RECURSIVE format_fiber_node(_, _, _, _)
RECURSIVE format_fiber_children(_, _, _, _)
RECURSIVE format_fiber_children_reversed(_, _, _, _)
RECURSIVE collect_filtered_subtrees(_, _, _)
RECURSIVE collect_filtered_children(_, _, _)

\* only the node and its direct children are looked at
has_interactive_descendant_shallow(t, n) ==
    \E m \in {n} \cup Range(Children(t, n)) :
        /\ ~t[m].is_component
        /\ IsSome(t[m].tag)
        /\ IsInteractiveTag(t[m].tag[1])

has_interactive_descendant(t, n) ==
    \/ /\ ~t[n].is_component
       /\ IsSome(t[n].tag)
       /\ IsInteractiveTag(t[n].tag[1])
    \/ \E c \in Range(Children(t, n)) : has_interactive_descendant(t, c)

\* one prop rendered as ` key=...`
PropText(kv) ==
    LET key == kv[1]
        value == kv[2]
    IN  IF value.t = "string" THEN <<" ", key, "=", "\"">> \o value.s \o <<"\"">>
        ELSE IF value.t = "number" THEN <<" ", key, "=", "{">> \o value.s \o <<"}">>
        ELSE IF value.t = "bool" THEN <<" ", key, "=", "{">> \o value.s \o <<"}">>
        ELSE IF value.t = "null" THEN <<" ", key, "=", "{", "null", "}">>
        ELSE <<" ", key, "=", "{", "...", "}">>

\* one html_attrs entry rendered, given the props of the node
AttrText(props, kv) ==
    IF \E k \in 1..Len(props) : props[k][1] = kv[1] THEN <<>>
    ELSE IF kv[2].t = "string" THEN <<" ", kv[1], "=", "\"">> \o kv[2].s \o <<"\"">>
    ELSE <<>>

\* the line format_fiber_node pushes for a node at a depth
fiber_line(node, depth) ==
    Indent(depth) \o <<"-", " ">> \o node.name
    \o (IF ~node.is_component /\ IsSome(node.aria_name)
        THEN <<" ", "\"">> \o node.aria_name[1] \o <<"\"">> ELSE <<>>)
    \o (IF IsSome(node.ref_id)
        THEN <<" ", "[", "ref", "=">> \o node.ref_id[1] \o <<"]">> ELSE <<>>)
    \o Flatten([k \in 1..Len(node.props) |-> PropText(node.props[k])])
    \o (IF IsSome(node.html_attrs)
        THEN Flatten([k \in 1..Len(node.html_attrs[1]) |->
                         AttrText(node.props, node.html_attrs[1][k])])
        ELSE <<>>)

\* the children visited last to first
format_fiber_children_reversed(t, kids, depth, o) ==
    IF Len(kids) = 0 THEN <<>>
    ELSE format_fiber_children_reversed(t, Tail(kids), depth, o)
         \o format_fiber_node(t, Head(kids), depth, o)

format_fiber_children(t, kids, depth, o) ==
    IF Len(kids) = 0 THEN <<>>
    ELSE format_fiber_node(t, Head(kids), depth, o)
         \o format_fiber_children(t, Tail(kids), depth, o)

\* the interactive filter applied to components as well as to hosts
format_fiber_node_filter_components(t, n, depth, o) ==
    IF DepthCut(depth, o) THEN <<>>
    ELSE IF /\ o.interactive
            /\ ~IsInteractiveTag(IF IsSome(t[n].tag) THEN t[n].tag[1] ELSE <<>>)
    THEN format_fiber_children(t, Children(t, n), depth, o)
    ELSE IF o.compact /\ t[n].is_component /\ ~has_interactive_descendant(t, n)
    THEN <<>>
    ELSE <<[id |-> n, depth |-> depth, line |-> fiber_line(t[n], depth)]>>
         \o format_fiber_children(t, Children(t, n), depth + 1, o)

\* the children of a skipped host rendered one level deeper
format_fiber_node_indent_promoted(t, n, depth, o) ==
    IF DepthCut(depth, o) THEN <<>>
    ELSE IF /\ o.interactive
            /\ ~t[n].is_component
            /\ ~IsInteractiveTag(IF IsSome(t[n].tag) THEN t[n].tag[1] ELSE <<>>)
    THEN format_fiber_children(t, Children(t, n), depth + 1, o)
    ELSE IF o.compact /\ t[n].is_component /\ ~has_interactive_descendant(t, n)
    THEN <<>>
    ELSE <<[id |-> n, depth |-> depth, line |-> fiber_line(t[n], depth)]>>
         \o format_fiber_children(t, Children(t, n), depth + 1, o)

\* a component dropped by compact has its children promoted, as a skipped
\* host has
format_fiber_node_promote_dropped(t, n, depth, o) ==
    IF DepthCut(depth, o) THEN <<>>
    ELSE IF /\ o.interactive
            /\ ~t[n].is_component
            /\ ~IsInteractiveTag(IF IsSome(t[n].tag) THEN t[n].tag[1] ELSE <<>>)
    THEN format_fiber_children(t, Children(t, n), depth, o)
    ELSE IF o.compact /\ t[n].is_component /\ ~has_interactive_descendant(t, n)
    THEN format_fiber_children(t, Children(t, n), depth, o)
    ELSE <<[id |-> n, depth |-> depth, line |-> fiber_line(t[n], depth)]>>
         \o format_fiber_children(t, Children(t, n), depth + 1, o)

format_fiber_node(t, n, depth, o) ==
    IF DepthCut(depth, o) THEN <<>>
    ELSE IF /\ o.interactive
            /\ ~t[n].is_component
            /\ ~IsInteractiveTag(IF IsSome(t[n].tag) THEN t[n].tag[1] ELSE <<>>)
    THEN format_fiber_children(t, Children(t, n), depth, o)
    ELSE IF o.compact /\ t[n].is_component /\ ~has_interactive_descendant(t, n)
    THEN <<>>
    ELSE <<[id |-> n, depth |-> depth, line |-> fiber_line(t[n], depth)]>>
         \o format_fiber_children(t, Children(t, n), depth + 1, o)

collect_filtered_children(t, kids, o) ==
    IF Len(kids) = 0 THEN <<>>
    ELSE collect_filtered_subtrees(t, Head(kids), o)
         \o collect_filtered_children(t, Tail(kids), o)

\* a node is also taken as a match when one of its children matches
collect_filtered_subtrees_parent(t, n, o) ==
    LET filter == IF IsSome(o.filter) THEN o.filter[1] ELSE <<>>
    IN  IF \/ name_matches_filter(t[n].name, filter)
           \/ \E c \in Range(Children(t, n)) : name_matches_filter(t[c].name, filter)
        THEN format_fiber_node(t, n, 0, [o EXCEPT !.filter = None])
        ELSE collect_filtered_children(t, Children(t, n), o)

collect_filtered_subtrees(t, n, o) ==
    LET filter == IF IsSome(o.filter) THEN o.filter[1] ELSE <<>>
    IN  IF name_matches_filter(t[n].name, filter)
        THEN format_fiber_node(t, n, 0, [o EXCEPT !.filter = None])
        ELSE collect_filtered_children(t, Children(t, n), o)

\* the loop over fiber.tree in take_react_snapshot
RECURSIVE format_fiber_roots(_, _, _)
format_fiber_roots(t, roots, o) ==
    IF Len(roots) = 0 THEN <<>>
    ELSE (IF IsSome(o.filter)
          THEN collect_filtered_subtrees(t, Head(roots), o)
          ELSE format_fiber_node(t, Head(roots), 0, o))
         \o format_fiber_roots(t, Tail(roots), o)

(***************************************************************************)
(* AX path: ax_value_str, build_ax_tree, format_ax_node                    *)
(***************************************************************************)
RECURSIVE format_ax_node(_, _, _, _)
RECURSIVE format_ax_children(_, _, _, _)

\* Option<AXValue> -> Option<String>: the value when it is a JSON string
ax_value_str(v) ==
    IF IsSome(v) /\ IsSome(v[1].value) /\ v[1].value[1].t = "string"
    THEN Some(v[1].value[1].s)
    ELSE None

\* Option<String>::unwrap_or_default
unwrap_or_default(o) == IF IsSome(o) THEN o[1] ELSE <<>>

\* INTERACTIVE_ROLES.contains(&role.as_str())
IsInteractiveRole(role) == Len(role) = 1 /\ role[1] \in INTERACTIVE_ROLES

\* the roots handed to format_ax_node, given the decoded `nodes` vector
build_ax_tree(nodes) ==
    IF Len(nodes) = 0 THEN <<>> ELSE <<nodes[1]>>

\* the line format_ax_node pushes
ax_line(role, name, depth) ==
    IF name = <<>>
    THEN Indent(depth) \o <<"-", " ">> \o role
    ELSE Indent(depth) \o <<"-", " ">> \o role \o <<" ", "\"">> \o name \o <<"\"">>

format_ax_children(t, kids, depth, o) ==
    IF Len(kids) = 0 THEN <<>>
    ELSE format_ax_node(t, Head(kids), depth, o)
         \o format_ax_children(t, Tail(kids), depth, o)

\* compact skipping every unnamed node, interactive roles included
format_ax_node_compact_unnamed(t, n, depth, o) ==
    LET role == unwrap_or_default(ax_value_str(t[n].role))
        name == unwrap_or_default(ax_value_str(t[n].name))
    IN  IF DepthCut(depth, o) THEN <<>>
        ELSE IF role = <<"none">> \/ role = <<"Ignored">> \/ role = <<"generic">>
        THEN format_ax_children(t, Children(t, n), depth, o)
        ELSE IF o.interactive /\ ~IsInteractiveRole(role)
        THEN format_ax_children(t, Children(t, n), depth, o)
        ELSE IF o.compact /\ name = <<>>
        THEN format_ax_children(t, Children(t, n), depth, o)
        ELSE <<[id |-> n, depth |-> depth, line |-> ax_line(role, name, depth)]>>
             \o format_ax_children(t, Children(t, n), depth + 1, o)

format_ax_node(t, n, depth, o) ==
    LET role == unwrap_or_default(ax_value_str(t[n].role))
        name == unwrap_or_default(ax_value_str(t[n].name))
    IN  IF DepthCut(depth, o) THEN <<>>
        ELSE IF role = <<"none">> \/ role = <<"Ignored">> \/ role = <<"generic">>
        THEN format_ax_children(t, Children(t, n), depth, o)
        ELSE IF o.interactive /\ ~IsInteractiveRole(role)
        THEN format_ax_children(t, Children(t, n), depth, o)
        ELSE IF o.compact /\ name = <<>> /\ ~IsInteractiveRole(role)
        THEN format_ax_children(t, Children(t, n), depth, o)
        ELSE <<[id |-> n, depth |-> depth, line |-> ax_line(role, name, depth)]>>
             \o format_ax_children(t, Children(t, n), depth + 1, o)

\* take_aria_snapshot: build_ax_tree, then the loop over the roots
\* the nodes named by the root's child_ids looked up and formatted under it,
\* once for every occurrence of an id
format_ax_roots_follow_ids(t, o) ==
    LET top == build_ax_tree(Children(t, 0))
        named(r) == SelectSeq(t[r].child_ids, LAMBDA id : id \in 1..Len(t))
    IN  format_ax_children(t, top, 0, o)
        \o (IF Len(top) = 0 THEN <<>>
            ELSE Flatten([k \in 1..Len(named(top[1])) |->
                            format_ax_node(t, named(top[1])[k], 1, o)]))

format_ax_roots(t, o) ==
    format_ax_children(t, build_ax_tree(Children(t, 0)), 0, o)

(***************************************************************************)
(* Full DOM formatter (format_dom_node).                                   *)
(***************************************************************************)
RECURSIVE format_dom_node(_, _, _, _)
RECURSIVE format_dom_children(_, _, _, _)

\* one attribute rendered: string values only
DomAttrText(kv) ==
    IF kv[2].t = "string" THEN <<" ", kv[1], "=", "\"">> \o kv[2].s \o <<"\"">>
    ELSE <<>>

dom_line(node, depth) ==
    IF ~IsSome(node.tag) /\ IsSome(node.text)
    THEN Indent(depth) \o <<"-", " ", "\"">> \o node.text[1] \o <<"\"">>
    ELSE Indent(depth) \o <<"-", " ">> \o unwrap_or_default(node.tag)
         \o Flatten([k \in 1..Len(node.attrs) |-> DomAttrText(node.attrs[k])])

format_dom_children(t, kids, depth, o) ==
    IF Len(kids) = 0 THEN <<>>
    ELSE format_dom_node(t, Head(kids), depth, o)
         \o format_dom_children(t, Tail(kids), depth, o)

format_dom_node(t, n, depth, o) ==
    IF DepthCut(depth, o) THEN <<>>
    ELSE <<[id |-> n, depth |-> depth, line |-> dom_line(t[n], depth)]>>
         \o format_dom_children(t, Children(t, n), depth + 1, o)

(***************************************************************************)
(* Mini DOM: flatten_fragments and collapse_dom_tree.  A DOM node is here  *)
(* the nested record [tag, text, attrs, children], children a sequence of  *)
(* DOM nodes, as the DomNode the tests build.                              *)
(***************************************************************************)
STRUCTURAL_TAGS ==
    {"div", "span", "p", "section", "main", "article", "header", "footer",
     "nav", "aside", "figure", "figcaption", "ul", "ol", "li", "dl", "dt",
     "dd", "table", "tbody", "thead", "tfoot", "tr", "td", "th", "center",
     "fieldset", "form"}

\* the attribute names of the model that start with `aria-`
AriaNames == {"aria-label", "aria-hidden"}

\* an attribute is meaningful unless its name starts with `aria-` or is one
\* of role, tabindex, hidden, dir, lang
is_meaningful_attr(key) ==
    key \notin AriaNames /\ key \notin {"role", "tabindex", "hidden", "dir", "lang"}

\* a node with neither tag nor text
is_fragment(node) == ~IsSome(node.tag) /\ ~IsSome(node.text)

RECURSIVE flatten_fragments(_)
RECURSIVE flatten_fragments_shallow(_)
RECURSIVE collapse_dom_tree(_)
RECURSIVE collapse_children(_)

\* only the fragments of the sequence itself are expanded, not those inside
flatten_fragments_shallow(s) ==
    IF Len(s) = 0 THEN <<>>
    ELSE (IF is_fragment(Head(s)) THEN Head(s).children ELSE <<Head(s)>>)
         \o flatten_fragments_shallow(Tail(s))

\* each fragment recursively expanded to its children in place
flatten_fragments(s) ==
    IF Len(s) = 0 THEN <<>>
    ELSE (IF is_fragment(Head(s)) THEN flatten_fragments(Head(s).children)
          ELSE <<Head(s)>>)
         \o flatten_fragments(Tail(s))

\* collapse applied to every child, None results dropped
collapse_children(s) ==
    IF Len(s) = 0 THEN <<>>
    ELSE collapse_dom_tree(Head(s)) \o collapse_children(Tail(s))

\* only text nodes pass through; a fragment is collapsed as an element is
collapse_dom_tree_text_only(node) ==
    IF ~IsSome(node.tag) /\ IsSome(node.text) THEN Some(node)
    ELSE LET children   == collapse_children(node.children)
             structural == /\ IsSome(node.tag)
                           /\ \E g \in STRUCTURAL_TAGS : node.tag[1] = <<g>>
             plain      == /\ \A k \in 1..Len(node.attrs) :
                                 ~is_meaningful_attr(node.attrs[k][1])
                           /\ ~IsSome(node.text)
         IN  IF structural /\ plain /\ Len(children) = 0 THEN None
             ELSE IF structural /\ plain
             THEN Some([tag |-> None, text |-> None, attrs |-> <<>>,
                        children |-> children])
             ELSE Some([node EXCEPT !.children = flatten_fragments(children)])

\* a kept node holds its collapsed children as they are, fragments included
collapse_dom_tree_keep_fragments(node) ==
    IF ~IsSome(node.tag) THEN Some(node)
    ELSE LET children   == collapse_children(node.children)
             structural == \E g \in STRUCTURAL_TAGS : node.tag[1] = <<g>>
             plain      == /\ \A k \in 1..Len(node.attrs) :
                                 ~is_meaningful_attr(node.attrs[k][1])
                           /\ ~IsSome(node.text)
         IN  IF structural /\ plain /\ Len(children) = 0 THEN None
             ELSE IF structural /\ plain
             THEN Some([tag |-> None, text |-> None, attrs |-> <<>>,
                        children |-> children])
             ELSE Some([node EXCEPT !.children = children])

\* any attribute keeps a structural node
collapse_dom_tree_any_attr(node) ==
    IF ~IsSome(node.tag) THEN Some(node)
    ELSE LET children   == collapse_children(node.children)
             structural == \E g \in STRUCTURAL_TAGS : node.tag[1] = <<g>>
             plain      == Len(node.attrs) = 0 /\ ~IsSome(node.text)
         IN  IF structural /\ plain /\ Len(children) = 0 THEN None
             ELSE IF structural /\ plain
             THEN Some([tag |-> None, text |-> None, attrs |-> <<>>,
                        children |-> children])
             ELSE Some([node EXCEPT !.children = flatten_fragments(children)])

\* bottom-up collapse; None: the node is dropped.  A node without a tag (a
\* text node, or a fragment left for the parent) passes through.
collapse_dom_tree(node) ==
    IF ~IsSome(node.tag) THEN Some(node)
    ELSE LET children   == collapse_children(node.children)
             structural == \E g \in STRUCTURAL_TAGS : node.tag[1] = <<g>>
             plain      == /\ \A k \in 1..Len(node.attrs) :
                                 ~is_meaningful_attr(node.attrs[k][1])
                           /\ ~IsSome(node.text)
         IN  IF structural /\ plain /\ Len(children) = 0 THEN None
             ELSE IF structural /\ plain
             THEN Some([tag |-> None, text |-> None, attrs |-> <<>>,
                        children |-> children])
             ELSE Some([node EXCEPT !.children = flatten_fragments(children)])

\* the roots the mini path renders for a collapse result
mini_roots(c) ==
    IF ~IsSome(c) THEN <<>>
    ELSE IF is_fragment(c[1]) THEN flatten_fragments(c[1].children)
    ELSE <<c[1]>>

(***************************************************************************)
(* Mini DOM formatter: format_mini_node, over the table of the forest that *)
(* is rendered                                                             *)
(***************************************************************************)
\* a node that is text only
is_text_node(node) == ~IsSome(node.tag) /\ IsSome(node.text)

RECURSIVE TableFrom(_, _, _)
\* the forest ns as a pre-order table: its roots have parent p, its first
\* node gets index base + 1
TableFrom(ns, p, base) ==
    IF Len(ns) = 0 THEN <<>>
    ELSE LET sub == TableFrom(Head(ns).children, base + 1, base + 1)
         IN  <<[parent |-> p, tag |-> Head(ns).tag, text |-> Head(ns).text,
                attrs |-> Head(ns).attrs]>>
             \o sub \o TableFrom(Tail(ns), p, base + 1 + Len(sub))

\* the node has exactly one child and that child is a text node
inlines_text(t, n) ==
    LET kids == Children(t, n)
    IN  Len(kids) = 1 /\ is_text_node(t[kids[1]])

RECURSIVE format_mini_node(_, _, _, _)
RECURSIVE format_mini_node_first_text(_, _, _, _)
RECURSIVE format_mini_children(_, _, _, _)
format_mini_children(t, kids, depth, o) ==
    IF Len(kids) = 0 THEN <<>>
    ELSE format_mini_node(t, Head(kids), depth, o)
         \o format_mini_children(t, Tail(kids), depth, o)

\* the text of a first child that is a text node inlined, whatever follows it
format_mini_node_first_text(t, n, depth, o) ==
    IF DepthCut(depth, o) THEN <<>>
    ELSE LET kids == Children(t, n)
         IN  IF Len(kids) >= 1 /\ is_text_node(t[kids[1]])
             THEN <<[id |-> n, depth |-> depth,
                     line |-> dom_line(t[n], depth) \o <<" ", "\"">>
                              \o t[kids[1]].text[1] \o <<"\"">>]>>
                  \o format_mini_children(t, Tail(kids), depth + 1, o)
             ELSE <<[id |-> n, depth |-> depth, line |-> dom_line(t[n], depth)]>>
                  \o format_mini_children(t, kids, depth + 1, o)

\* as format_dom_node, but a sole text child is appended to the node's line
format_mini_node(t, n, depth, o) ==
    IF DepthCut(depth, o) THEN <<>>
    ELSE LET kids == Children(t, n)
         IN  IF inlines_text(t, n)
             THEN <<[id |-> n, depth |-> depth,
                     line |-> dom_line(t[n], depth) \o <<" ", "\"">>
                              \o t[kids[1]].text[1] \o <<"\"">>]>>
             ELSE <<[id |-> n, depth |-> depth, line |-> dom_line(t[n], depth)]>>
                  \o format_mini_children(t, kids, depth + 1, o)

\* the lines of a sequence of emissions
Lines(em) == [k \in 1..Len(em) |-> em[k].line]

(***************************************************************************)
(* Input spaces                                                            *)
(***************************************************************************)
JString(s) == [t |-> "string", s |-> s]

JNumber(s) == [t |-> "number", s |-> s]

\* node j and its ancestors in the parent vector ps
RECURSIVE PathTo(_, _)
PathTo(ps, j) == {j} \cup (IF ps[j] = 0 THEN {} ELSE PathTo(ps, ps[j]))

\* parent vectors of the tables with n nodes; a table lists the nodes in
\* document order (pre-order), as a decoder reading nested arrays meets them
ParentFns(n) ==
    {ps \in [1..n -> 0..(n - 1)] :
        /\ \A i \in 1..n : ps[i] < i
        /\ \A i \in 2..n : ps[i] = 0 \/ ps[i] \in PathTo(ps, i - 1)}

\* fiber nodes as the walker produces them (parent filled in by MkTree)
FiberTemplates ==
    { [name |-> <<"A", "b">>, is_component |-> TRUE,
       props |-> << <<"n", JNumber(<<"1">>)>> >>,
       ref_id |-> None, aria_name |-> None, tag |-> None, html_attrs |-> None],
      [name |-> <<"a">>, is_component |-> FALSE, props |-> <<>>,
       ref_id |-> Some(<<"e1">>), aria_name |-> Some(<<"Hi">>), tag |-> Some(<<"a">>),
       html_attrs |-> Some(<< <<"href", JString(<<"/">>)>> >>)],
      [name |-> <<"d", "i", "v">>, is_component |-> FALSE, props |-> <<>>,
       ref_id |-> None, aria_name |-> None, tag |-> Some(<<"div">>),
       html_attrs |-> None] }

AXV(s) == Some([value |-> Some(JString(s))])

\* AX nodes as decoded from the `nodes` array
AXTemplates ==
    { [role |-> AXV(<<"button">>), name |-> AXV(<<>>)],
      [role |-> AXV(<<"heading">>), name |-> AXV(<<"x">>)],
      [role |-> AXV(<<"heading">>), name |-> None],
      [role |-> AXV(<<"generic">>), name |-> AXV(<<"x">>)],
      [role |-> AXV(<<"none">>), name |-> None],
      [role |-> AXV(<<"Ignored">>), name |-> AXV(<<"x">>)] }

\* the AX nodes carried by the replies of the dispatcher model
AXReplyTemplates ==
    { [role |-> AXV(<<"button">>), name |-> AXV(<<>>)],
      [role |-> AXV(<<"heading">>), name |-> AXV(<<"x">>)],
      [role |-> None, name |-> None] }

DomTemplates ==
    { [tag |-> Some(<<"div">>), text |-> None, attrs |-> <<>>],
      [tag |-> Some(<<"a">>), text |-> None,
       attrs |-> << <<"href", JString(<<"/">>)>> >>],
      [tag |-> None, text |-> Some(<<"hi">>), attrs |-> <<>>] }

\* DOM nodes as the DOM walker produces them: elements and text nodes
MiniTemplates ==
    { [tag |-> Some(<<"div">>), text |-> None, attrs |-> <<>>],
      [tag |-> Some(<<"div">>), text |-> None,
       attrs |-> << <<"role", JString(<<"group">>)>> >>],
      [tag |-> Some(<<"div">>), text |-> None,
       attrs |-> << <<"id", JString(<<"root">>)>> >>],
      [tag |-> Some(<<"a">>), text |-> None,
       attrs |-> << <<"href", JString(<<"/">>)>> >>],
      [tag |-> Some(<<"span">>), text |-> Some(<<"t">>), attrs |-> <<>>],
      [tag |-> None, text |-> Some(<<"hi">>), attrs |-> <<>>] }

\* the nodes of a sequence handed to flatten_fragments
FragmentTemplates ==
    { [tag |-> None, text |-> None, attrs |-> <<>>],
      [tag |-> Some(<<"a">>), text |-> None,
       attrs |-> << <<"href", JString(<<"/">>)>> >>],
      [tag |-> Some(<<"div">>), text |-> None, attrs |-> <<>>],
      [tag |-> None, text |-> Some(<<"hi">>), attrs |-> <<>>] }

\* text nodes are leaves
TextIsLeaf(t) == \A i \in 1..Len(t) : IsSome(t[i].text) => Len(Children(t, i)) = 0

\* node n of table t as a nested DomNode
RECURSIVE Nest(_, _)
Nest(t, n) ==
    LET kids == Children(t, n)
    IN  [tag |-> t[n].tag, text |-> t[n].text, attrs |-> t[n].attrs,
         children |-> [i \in 1..Len(kids) |-> Nest(t, kids[i])]]

\* the top-level vector of table t as a sequence of nested DomNodes
NestRoots(t) ==
    LET kids == Children(t, 0) IN [i \in 1..Len(kids) |-> Nest(t, kids[i])]

\* the table with parent vector ps whose node i is template tp[i]
Table(ps, tp) == [i \in DOMAIN ps |-> [parent |-> ps[i]] @@ tp[i]]

\* an AX response whose nodes carry nested `children` (and no childIds)
AXNested(ps, tp) ==
    [i \in DOMAIN ps |->
        [node_id |-> i, child_ids |-> <<>>, parent |-> ps[i],
         role |-> tp[i].role, name |-> tp[i].name]]

\* an AX response as CDP sends it: a flat array linked by childIds, ps being
\* the parent vector of the page's accessibility tree
AXFlat(ps, tp) ==
    [i \in DOMAIN ps |->
        [node_id |-> i,
         child_ids |-> SelectSeq([j \in DOMAIN ps |-> j], LAMBDA j : ps[j] = i),
         parent |-> 0, role |-> tp[i].role, name |-> tp[i].name]]

\* child_ids a malformed response may give node i of n: none, the next node
\* (a cycle over all of them, a self-reference when alone), the next node
\* twice, an id that names no node, the last node (shared by every parent)
LinkChoices(i, n) ==
    { <<>>, <<(i % n) + 1>>, <<(i % n) + 1, (i % n) + 1>>, <<n + 1>>, <<n>> }

\* the nodes of a malformed response: an unnamed button, a named heading
LinkedTemplates ==
    { [role |-> AXV(<<"button">>), name |-> AXV(<<>>)],
      [role |-> AXV(<<"heading">>), name |-> AXV(<<"x">>)] }

\* a flat AX response with the given child_ids
AXLinked(links, tp) ==
    [i \in DOMAIN links |->
        [node_id |-> i, child_ids |-> links[i], parent |-> 0,
         role |-> tp[i].role, name |-> tp[i].name]]

DepthChoices == {None} \cup {Some(d) : d \in 0..MaxDepthOpt}

\* no filter, a substring, a prefix glob, a suffix glob
FilterChoices == {None, Some(<<"b">>), Some(<<"A", "*">>), Some(<<"*", "v">>)}

\* the options a caller can pass (cmd_snapshot builds them from the flags)
AllOpts ==
    [interactive : BOOLEAN, compact : BOOLEAN, react : BOOLEAN,
     max_depth : DepthChoices, filter : FilterChoices,
     full : BOOLEAN, mini : BOOLEAN]

\* what CdpConnection::eval can hand back for the fiber walker script: a
\* transport error, a value that is no FiberResult, or a FiberResult
EvalFailures ==
    { [k |-> "error", found |-> FALSE, all_minified |-> FALSE, tree |-> <<>>],
      [k |-> "unparsable", found |-> FALSE, all_minified |-> FALSE, tree |-> <<>>] }

FiberReply(found, all_minified, t) ==
    [k |-> "fiber", found |-> found, all_minified |-> all_minified, tree |-> t]

\* what CdpConnection::send can hand back for Accessibility.getFullAXTree: a
\* transport error, a result without `nodes`, undecodable `nodes`, or nodes
AXFailures ==
    { [k |-> kk, nodes |-> <<>>] : kk \in {"error", "no_nodes", "bad_nodes"} }

AXReply(t) == [k |-> "nodes", nodes |-> t]

(***************************************************************************)
(* The dispatcher: take_snapshot and its two paths, split at the awaits    *)
(***************************************************************************)
Err == Some([ok |-> FALSE, text |-> <<>>])

Ok(text) == Some([ok |-> TRUE, text |-> text])

WarningLine == <<"# Warning: All component names are minified (production build)">>

Idle ==
    /\ pc = "idle"
    /\ opts = None
    /\ callOpts = None
    /\ calls = <<>>
    /\ path = "none"
    /\ evalKind = "none"
    /\ axKind = "none"
    /\ result = None
    /\ kind = "none"
    /\ tree = <<>>
    /\ emitted = <<>>
    /\ minified = FALSE
    /\ collapsed = None
    /\ miniRoots = <<>>
    /\ next_id = 1
    /\ page = None
    /\ arg = None
    /\ ret = None

Init == Idle

\* the fiber probe evaluated first whatever the options
take_snapshot_probe_always(o) ==
    /\ pc = "idle"
    /\ callOpts' = Some(o)
    /\ opts' = Some(o)
    /\ path' = "fiber"
    /\ calls' = <<"Runtime.evaluate">>
    /\ pc' = "eval"
    /\ UNCHANGED <<evalKind, axKind, result, kind, tree, emitted, minified>>
    /\ UNCHANGED <<collapsed, miniRoots, next_id, page, arg, ret>>

\* take_snapshot up to the first await: the path is chosen by opts.react alone
take_snapshot(o) ==
    /\ pc = "idle"
    /\ callOpts' = Some(o)
    /\ opts' = Some(o)
    /\ IF o.react
       THEN /\ path' = "fiber"
            /\ calls' = <<"Runtime.evaluate">>
            /\ pc' = "eval"
       ELSE /\ path' = "ax"
            /\ calls' = <<"Accessibility.getFullAXTree">>
            /\ pc' = "ax"
    /\ UNCHANGED <<evalKind, axKind, result, kind, tree, emitted, minified>>
    /\ UNCHANGED <<collapsed, miniRoots, next_id, page, arg, ret>>

\* the warning pushed after the node lines
react_result_warning_last(r, o) ==
    LET lines == Lines(format_fiber_roots(r.tree, Children(r.tree, 0), o))
                 \o (IF r.all_minified THEN <<WarningLine>> ELSE <<>>)
    IN  IF Len(lines) = 0 THEN Ok(<<"(empty)">>) ELSE Ok(Join(lines))

\* the result of take_react_snapshot once the probe value decoded with found
react_result(r, o) ==
    LET lines == (IF r.all_minified THEN <<WarningLine>> ELSE <<>>)
                 \o Lines(format_fiber_roots(r.tree, Children(r.tree, 0), o))
    IN  IF Len(lines) = 0 THEN Ok(<<"(empty)">>) ELSE Ok(Join(lines))

\* fallback options rebuilt from defaults instead of cloned from the caller's
fallback_opts_reset(o) ==
    [o EXCEPT !.react = FALSE, !.interactive = FALSE, !.max_depth = None]

\* the options take_react_snapshot hands to take_aria_snapshot on fallback
fallback_opts(o) == [o EXCEPT !.react = FALSE]

\* what the reply of cdp.eval is, seen from take_react_snapshot
eval_kind(r) ==
    IF r.k = "error" THEN "error"
    ELSE IF r.k = "unparsable" THEN "unparsable"
    ELSE IF ~r.found THEN "not_found"
    ELSE "found"

\* a transport error of eval treated like an undecodable probe value
react_branch_swallow(r) ==
    IF eval_kind(r) \in {"error", "unparsable", "not_found"} THEN "fallback"
    ELSE "render"

\* the branch take_react_snapshot takes on a reply: `?` propagates the
\* transport error, a failed decode or found == false calls take_aria_snapshot
react_branch(r) ==
    IF eval_kind(r) = "error" THEN "propagate"
    ELSE IF eval_kind(r) \in {"unparsable", "not_found"} THEN "fallback"
    ELSE "render"

\* take_react_snapshot from the return of cdp.eval on
take_react_snapshot(r) ==
    /\ pc = "eval"
    /\ evalKind' = eval_kind(r)
    /\ IF react_branch(r) = "propagate"
       THEN /\ result' = Err
            /\ pc' = "done"
            /\ UNCHANGED <<opts, calls, kind, tree, emitted, minified>>
       ELSE IF react_branch(r) = "fallback"
       THEN /\ opts' = Some(fallback_opts(opts[1]))
            /\ calls' = Append(calls, "Accessibility.getFullAXTree")
            /\ pc' = "ax"
            /\ UNCHANGED <<result, kind, tree, emitted, minified>>
       ELSE /\ kind' = "fiber"
            /\ tree' = r.tree
            /\ minified' = r.all_minified
            /\ emitted' = format_fiber_roots(r.tree, Children(r.tree, 0), opts[1])
            /\ result' = react_result(r, opts[1])
            /\ pc' = "done"
            /\ UNCHANGED <<opts, calls>>
    /\ UNCHANGED <<callOpts, path, axKind>>
    /\ UNCHANGED <<collapsed, miniRoots, next_id, page, arg, ret>>

\* no sentinel when formatting emitted no line
aria_result_blank(nodes, o) ==
    IF Len(Children(nodes, 0)) = 0 THEN Ok(<<"(empty page)">>)
    ELSE Ok(Join(Lines(format_ax_roots(nodes, o))))

\* the result of take_aria_snapshot once `nodes` decoded
aria_result(nodes, o) ==
    IF Len(Children(nodes, 0)) = 0 THEN Ok(<<"(empty page)">>)
    ELSE LET lines == Lines(format_ax_roots(nodes, o))
         IN  IF Len(lines) = 0 THEN Ok(<<"(empty page)">>) ELSE Ok(Join(lines))

\* whether take_aria_snapshot returns early with an error on a reply: `?` on
\* send, ok_or_else on the missing `nodes`, `?` on from_value
aria_fails(r) == r.k \in {"error", "no_nodes", "bad_nodes"}

\* take_aria_snapshot from the return of cdp.send on
take_aria_snapshot(r) ==
    /\ pc = "ax"
    /\ axKind' = r.k
    /\ IF aria_fails(r)
       THEN /\ result' = Err
            /\ UNCHANGED <<kind, tree, emitted>>
       ELSE /\ kind' = "ax"
            /\ tree' = r.nodes
            /\ emitted' = IF Len(Children(r.nodes, 0)) = 0 THEN <<>>
                          ELSE format_ax_roots(r.nodes, opts[1])
            /\ result' = aria_result(r.nodes, opts[1])
    /\ pc' = "done"
    /\ UNCHANGED <<opts, callOpts, calls, path, evalKind, minified>>
    /\ UNCHANGED <<collapsed, miniRoots, next_id, page, arg, ret>>

\* the caller (cmd_snapshot) consumes the result; nothing outlives the call
Return ==
    /\ pc = "done"
    /\ pc' = "idle"
    /\ opts' = None
    /\ callOpts' = None
    /\ calls' = <<>>
    /\ path' = "none"
    /\ evalKind' = "none"
    /\ axKind' = "none"
    /\ result' = None
    /\ kind' = "none"
    /\ tree' = <<>>
    /\ emitted' = <<>>
    /\ minified' = FALSE
    /\ collapsed' = None
    /\ miniRoots' = <<>>
    /\ UNCHANGED <<next_id, page, arg, ret>>

\* a reply is drawn when the call that waits for it resumes
Next ==
    \/ \E o \in AllOpts : take_snapshot(o)
    \/ \E r \in EvalFailures : take_react_snapshot(r)
    \/ /\ pc = "eval"
       /\ \E n \in 0..MaxReplyNodes :
            \E ps \in ParentFns(n), tp \in [1..n -> FiberTemplates],
               found \in BOOLEAN, all_minified \in BOOLEAN :
               take_react_snapshot(FiberReply(found, all_minified, Table(ps, tp)))
    \/ \E r \in AXFailures : take_aria_snapshot(r)
    \/ /\ pc = "ax"
       /\ \E n \in 0..MaxReplyNodes :
            \E ps \in ParentFns(n), tp \in [1..n -> AXReplyTemplates] :
               take_aria_snapshot(AXReply(AXNested(ps, tp)))
    \/ /\ pc = "ax"
       /\ \E n \in 1..MaxFlatNodes :
            \E ps \in ParentFns(n), tp \in [1..n -> AXReplyTemplates] :
               take_aria_snapshot(AXReply(AXFlat(ps, tp)))
    \/ Return

Spec == Init /\ [][Next]_vars

(***************************************************************************)
(* The formatters on their own: a decoded tree and options are given, the  *)
(* formatter of the tree's kind runs.                                      *)
(***************************************************************************)
FormatOpts(kd) ==
    [interactive : BOOLEAN, compact : BOOLEAN, react : {kd = "fiber"},
     max_depth : DepthChoices,
     filter : IF kd = "fiber" THEN FilterChoices ELSE {None},
     full : {kd = "dom"}, mini : {FALSE}]

InitFormat ==
    /\ pc = "fmt"
    /\ \/ \E n \in 0..MaxNodes :
            \E ps \in ParentFns(n), tp \in [1..n -> FiberTemplates] :
               kind = "fiber" /\ tree = Table(ps, tp)
       \/ \E n \in 0..MaxNodes :
            \E ps \in ParentFns(n), tp \in [1..n -> AXTemplates] :
               kind = "ax" /\ tree = AXNested(ps, tp)
       \/ \E n \in 1..MaxFlatNodes :
            \E ps \in ParentFns(n), tp \in [1..n -> AXTemplates] :
               kind = "ax" /\ tree = AXFlat(ps, tp)
       \/ \E n \in 1..MaxFlatNodes :
            \E tp \in [1..n -> LinkedTemplates] :
               \E links \in {f \in [1..n -> UNION {LinkChoices(i, n) : i \in 1..n}] :
                                \A i \in 1..n : f[i] \in LinkChoices(i, n)} :
                  kind = "ax" /\ tree = AXLinked(links, tp)
       \/ \E n \in 1..MaxNodes :
            \E ps \in ParentFns(n), tp \in [1..n -> DomTemplates] :
               /\ \A i \in 2..n : ps[i] > 0
               /\ kind = "dom"
               /\ tree = Table(ps, tp)
    /\ \E o \in FormatOpts(kind) : opts = Some(o) /\ callOpts = Some(o)
    /\ calls = <<>>
    /\ path = kind
    /\ evalKind = "none"
    /\ axKind = "none"
    /\ result = None
    /\ emitted = <<>>
    /\ minified = FALSE
    /\ collapsed = None
    /\ miniRoots = <<>>
    /\ next_id = 1
    /\ page = None
    /\ arg = None
    /\ ret = None

FormatFiberTree ==
    /\ pc = "fmt"
    /\ kind = "fiber"
    /\ emitted' = format_fiber_roots(tree, Children(tree, 0), opts[1])
    /\ pc' = "fmt_done"
    /\ UNCHANGED <<opts, callOpts, calls, path, evalKind, axKind, result, kind, tree,
                   minified>>
    /\ UNCHANGED <<collapsed, miniRoots, next_id, page, arg, ret>>

FormatAXTree ==
    /\ pc = "fmt"
    /\ kind = "ax"
    /\ emitted' = format_ax_roots(tree, opts[1])
    /\ pc' = "fmt_done"
    /\ UNCHANGED <<opts, callOpts, calls, path, evalKind, axKind, result, kind, tree,
                   minified>>
    /\ UNCHANGED <<collapsed, miniRoots, next_id, page, arg, ret>>

FormatDomTree ==
    /\ pc = "fmt"
    /\ kind = "dom"
    /\ emitted' = format_dom_node(tree, 1, 0, opts[1])
    /\ pc' = "fmt_done"
    /\ UNCHANGED <<opts, callOpts, calls, path, evalKind, axKind, result, kind, tree,
                   minified>>
    /\ UNCHANGED <<collapsed, miniRoots, next_id, page, arg, ret>>

NextFormat == FormatFiberTree \/ FormatAXTree \/ FormatDomTree

SpecFormat == InitFormat /\ [][NextFormat]_vars

(***************************************************************************)
(* The mini path from the decoded DOM root on, and flatten_fragments on a  *)
(* sequence of nodes                                                       *)
(***************************************************************************)
InitMini ==
    /\ pc = "mini"
    /\ \/ \E n \in 1..MaxNodes :
            \E ps \in ParentFns(n), tp \in [1..n -> MiniTemplates] :
               /\ \A i \in 2..n : ps[i] > 0
               /\ TextIsLeaf(Table(ps, tp))
               /\ kind = "mini"
               /\ tree = Table(ps, tp)
       \/ \E n \in 0..MaxNodes :
            \E ps \in ParentFns(n), tp \in [1..n -> FragmentTemplates] :
               /\ TextIsLeaf(Table(ps, tp))
               /\ kind = "nodes"
               /\ tree = Table(ps, tp)
    /\ \E o \in {x \in AllOpts : x.mini /\ ~x.full /\ ~x.react /\ ~x.interactive
                                 /\ ~x.compact /\ x.filter = None} :
          opts = Some(o) /\ callOpts = Some(o)
    /\ calls = <<>>
    /\ path = "mini"
    /\ evalKind = "none"
    /\ axKind = "none"
    /\ result = None
    /\ emitted = <<>>
    /\ minified = FALSE
    /\ collapsed = None
    /\ miniRoots = <<>>
    /\ next_id = 1
    /\ page = None
    /\ arg = None
    /\ ret = None

\* collapse_dom_tree on the root
CollapseTree ==
    /\ pc = "mini"
    /\ kind = "mini"
    /\ collapsed' = collapse_dom_tree(Nest(tree, 1))
    /\ pc' = "collapsed"
    /\ UNCHANGED <<opts, callOpts, calls, path, evalKind, axKind, result, kind,
                   tree, emitted, minified, miniRoots>>
    /\ UNCHANGED <<next_id, page, arg, ret>>

\* a top-level fragment flattened into the roots to render
FlattenCollapsed ==
    /\ pc = "collapsed"
    /\ miniRoots' = mini_roots(collapsed)
    /\ pc' = "mini_roots"
    /\ UNCHANGED <<opts, callOpts, calls, path, evalKind, axKind, result, kind,
                   tree, emitted, minified, collapsed>>
    /\ UNCHANGED <<next_id, page, arg, ret>>

\* flatten_fragments on a sequence of nodes
FlattenNodes ==
    /\ pc = "mini"
    /\ kind = "nodes"
    /\ miniRoots' = flatten_fragments(NestRoots(tree))
    /\ pc' = "flattened"
    /\ UNCHANGED <<opts, callOpts, calls, path, evalKind, axKind, result, kind,
                   tree, emitted, minified, collapsed>>
    /\ UNCHANGED <<next_id, page, arg, ret>>

\* every root of the mini path formatted at depth 0
FormatMiniRoots ==
    /\ pc = "mini_roots"
    /\ LET t == TableFrom(miniRoots, 0, 0)
       IN  emitted' = format_mini_children(t, Children(t, 0), 0, opts[1])
    /\ pc' = "mini_fmt"
    /\ UNCHANGED <<opts, callOpts, calls, path, evalKind, axKind, result, kind,
                   tree, minified, collapsed, miniRoots>>
    /\ UNCHANGED <<next_id, page, arg, ret>>

NextMini == CollapseTree \/ FlattenCollapsed \/ FlattenNodes \/ FormatMiniRoots

SpecMini == InitMini /\ [][NextMini]_vars

(***************************************************************************)
(* Transport: CdpConnection::send and CdpConnection::eval (src/src/cdp.rs) *)
(* An incoming websocket item is a record: kind is "text" for a text       *)
(* message holding JSON, "bad_text" for a text message that is no JSON,    *)
(* "other" for a binary/ping/close message or a stream error; id, error    *)
(* and result are the fields of the decoded object, None when absent.      *)
(***************************************************************************)
JNull == [t |-> "null", s |-> <<>>]

\* the object {}: no `result` field
EmptyObject == [t |-> "object", result |-> None]

\* a `result` object of a response: its own `result` field, when present,
\* holds the optional fields value and description
ResultObject(inner) == [t |-> "object", result |-> inner]

\* the loop of send that stops at the first text message, whatever its id
RECURSIVE SendLoop_any_id(_, _, _)
SendLoop_any_id(stream, id, k) ==
    IF k > Len(stream) THEN [ok |-> FALSE, value |-> JNull, at |-> 0]
    ELSE IF stream[k].kind = "bad_text" THEN [ok |-> FALSE, value |-> JNull, at |-> k]
    ELSE IF stream[k].kind = "text"
    THEN IF IsSome(stream[k].error) THEN [ok |-> FALSE, value |-> JNull, at |-> k]
         ELSE [ok |-> TRUE, at |-> k,
               value |-> IF IsSome(stream[k].result) THEN stream[k].result[1]
                         ELSE EmptyObject]
    ELSE SendLoop_any_id(stream, id, k + 1)

\* the while loop of send from item k on: `at` is the item that ended it
RECURSIVE SendLoop(_, _, _)
SendLoop(stream, id, k) ==
    IF k > Len(stream) THEN [ok |-> FALSE, value |-> JNull, at |-> 0]
    ELSE IF stream[k].kind = "bad_text" THEN [ok |-> FALSE, value |-> JNull, at |-> k]
    ELSE IF stream[k].kind = "text" /\ stream[k].id = Some(id)
    THEN IF IsSome(stream[k].error) THEN [ok |-> FALSE, value |-> JNull, at |-> k]
         ELSE [ok |-> TRUE, at |-> k,
               value |-> IF IsSome(stream[k].result) THEN stream[k].result[1]
                         ELSE EmptyObject]
    ELSE SendLoop(stream, id, k + 1)

\* what send returns for request id `id`: ws.send failing ends the call
send_outcome(id, sendOk, stream) ==
    IF ~sendOk THEN [ok |-> FALSE, value |-> JNull, at |-> 0]
    ELSE SendLoop(stream, id, 1)

\* a present value that is JSON null taken as absent
eval_outcome_null_absent(sent) ==
    IF ~sent.ok THEN [ok |-> FALSE, value |-> JNull]
    ELSE LET inner == sent.value.result
         IN  IF IsSome(inner) /\ IsSome(inner[1].value) /\ inner[1].value[1] # JNull
             THEN [ok |-> TRUE, value |-> inner[1].value[1]]
             ELSE IF /\ IsSome(inner)
                     /\ IsSome(inner[1].description)
                     /\ inner[1].description[1].t = "string"
             THEN [ok |-> TRUE, value |-> inner[1].description[1]]
             ELSE [ok |-> TRUE, value |-> JNull]

\* what eval makes of the outcome of its send
eval_outcome(sent) ==
    IF ~sent.ok THEN [ok |-> FALSE, value |-> JNull]
    ELSE LET inner == sent.value.result
         IN  IF IsSome(inner) /\ IsSome(inner[1].value)
             THEN [ok |-> TRUE, value |-> inner[1].value[1]]
             ELSE IF /\ IsSome(inner)
                     /\ IsSome(inner[1].description)
                     /\ inner[1].description[1].t = "string"
             THEN [ok |-> TRUE, value |-> inner[1].description[1]]
             ELSE [ok |-> TRUE, value |-> JNull]

\* the `result` objects a response may carry
ResultObjects ==
    { ResultObject(None),
      ResultObject(Some([value |-> None, description |-> None])),
      ResultObject(Some([value |-> Some(JNumber(<<"1">>)), description |-> None])),
      ResultObject(Some([value |-> Some(JNull),
                         description |-> Some(JString(<<"d">>))])),
      ResultObject(Some([value |-> None, description |-> Some(JString(<<"d">>))])),
      ResultObject(Some([value |-> None, description |-> Some(JNumber(<<"2">>))])) }

\* the items the websocket may deliver while a request with id `id` waits:
\* responses to this request, stale responses, events, other frames
Incoming(id) ==
    { [kind |-> "text", id |-> i, error |-> e,
       result |-> Some(ResultObject(None))] :
        i \in {None, Some(id), Some(id - 1)},
        e \in {None, Some(JString(<<"boom">>))} }
    \cup { [kind |-> kk, id |-> None, error |-> None, result |-> None] :
             kk \in {"bad_text", "other"} }

\* the same while a Runtime.evaluate request waits
EvalIncoming(id) ==
    { [kind |-> "text", id |-> Some(id), error |-> None, result |-> Some(x)] :
        x \in ResultObjects }
    \cup { [kind |-> "text", id |-> Some(id), error |-> Some(JString(<<"boom">>)),
            result |-> None],
           [kind |-> "other", id |-> None, error |-> None, result |-> None] }

InitCdp ==
    /\ pc = "connected"
    /\ opts = None
    /\ callOpts = None
    /\ calls = <<>>
    /\ path = "none"
    /\ evalKind = "none"
    /\ axKind = "none"
    /\ result = None
    /\ kind = "none"
    /\ tree = <<>>
    /\ emitted = <<>>
    /\ minified = FALSE
    /\ collapsed = None
    /\ miniRoots = <<>>
    /\ next_id = 1
    /\ page = None
    /\ arg = None
    /\ ret = None

\* CdpConnection::send for a method, with what the socket does meanwhile
Send(method, sendOk, stream) ==
    /\ pc \in {"connected", "sent", "evaluated"}
    /\ next_id <= MaxCalls
    /\ next_id' = next_id + 1
    /\ calls' = Append(calls, method)
    /\ arg' = Some([method |-> method, id |-> next_id, sendOk |-> sendOk,
                    stream |-> stream])
    /\ ret' = Some(send_outcome(next_id, sendOk, stream))
    /\ pc' = "sent"
    /\ UNCHANGED <<opts, callOpts, path, evalKind, axKind, result, kind, tree,
                   emitted, minified, collapsed, miniRoots, page>>

\* CdpConnection::eval: send of Runtime.evaluate, then the choice of value
Eval(sendOk, stream) ==
    /\ pc \in {"connected", "sent", "evaluated"}
    /\ next_id <= MaxCalls
    /\ next_id' = next_id + 1
    /\ calls' = Append(calls, "Runtime.evaluate")
    /\ arg' = Some([method |-> "Runtime.evaluate", id |-> next_id,
                    sendOk |-> sendOk, stream |-> stream])
    /\ ret' = Some(eval_outcome(send_outcome(next_id, sendOk, stream)))
    /\ pc' = "evaluated"
    /\ UNCHANGED <<opts, callOpts, path, evalKind, axKind, result, kind, tree,
                   emitted, minified, collapsed, miniRoots, page>>

\* when ws.send fails nothing is read from the socket
NextCdp ==
    \/ Send("Accessibility.getFullAXTree", FALSE, <<>>)
    \/ \E n \in 0..MaxStream :
         \E stream \in [1..n -> Incoming(next_id)] :
            Send("Accessibility.getFullAXTree", TRUE, stream)
    \/ Eval(FALSE, <<>>)
    \/ \E n \in 0..MaxStream :
         \E stream \in [1..n -> EvalIncoming(next_id)] :
            Eval(TRUE, stream)

SpecCdp == InitCdp /\ [][NextCdp]_vars

(***************************************************************************)
(* Properties of the transport (checked under SpecCdp)                     *)
(***************************************************************************)
\* the items of the last call's stream that answer its request id
Answers ==
    {k \in 1..Len(arg[1].stream) :
        /\ arg[1].stream[k].kind = "text"
        /\ arg[1].stream[k].id = Some(arg[1].id)}

\* the `result` field of the response of Runtime.evaluate that eval received
Evaluated ==
    LET k == CHOOSE x \in Answers : \A y \in Answers : x <= y
    IN  IF IsSome(arg[1].stream[k].result) THEN arg[1].stream[k].result[1].result
        ELSE None

\* the last eval's send came back with a response
EvalAnswered ==
    /\ pc = "evaluated"
    /\ arg[1].sendOk
    /\ Answers # {}
    /\ \A k \in Answers : ~IsSome(arg[1].stream[k].error)

\* C21: the transport's eval returns the result.value field of the
\* Runtime.evaluate response whenever that field is present (whatever its
\* JSON type), otherwise result.description when it is a string, otherwise
\* JSON null; it returns an error only when the underlying send fails.
C21_EvalValue ==
    pc = "evaluated" =>
        /\ ret[1].ok <=> send_outcome(arg[1].id, arg[1].sendOk, arg[1].stream).ok
        /\ EvalAnswered =>
              /\ ret[1].ok
              /\ ret[1].value =
                    (IF IsSome(Evaluated) /\ IsSome(Evaluated[1].value)
                     THEN Evaluated[1].value[1]
                     ELSE IF /\ IsSome(Evaluated)
                             /\ IsSome(Evaluated[1].description)
                             /\ Evaluated[1].description[1].t = "string"
                     THEN Evaluated[1].description[1]
                     ELSE JNull)

\* a response whose value is JSON null next to a description: null comes back
C21_Witness ==
    /\ EvalAnswered
    /\ IsSome(Evaluated)
    /\ Evaluated[1].value = Some(JNull)
    /\ IsSome(Evaluated[1].description)
    /\ ret[1] = [ok |-> TRUE, value |-> JNull]

\* the first item of the last call's stream that ends the loop of send: a
\* text message that is no JSON, or an answer to the request id (0: none)
LoopEnd ==
    LET ends == Answers \cup {k \in 1..Len(arg[1].stream) :
                                 arg[1].stream[k].kind = "bad_text"}
    IN  IF ends = {} THEN 0 ELSE CHOOSE k \in ends : \A j \in ends : k <= j

\* C30: CdpConnection.send uses a fresh request id for every call (starting
\* at 1 and strictly increasing on the connection, also after a failed call)
\* and returns only the `result` of the first incoming text message whose id
\* equals that id: messages with another id or without an id are skipped and
\* never returned as this call's result, a matching message carrying `error`
\* yields an error, and a stream that ends before a match yields an error.
C30_SendMatchesId ==
    pc \in {"sent", "evaluated"} =>
        /\ arg[1].id = Len(calls)
        /\ next_id = Len(calls) + 1
        /\ pc = "sent" =>
              /\ ret[1].ok =>
                    /\ Answers # {}
                    /\ LoopEnd \in Answers
                    /\ ~IsSome(arg[1].stream[LoopEnd].error)
                    /\ ret[1].value = (IF IsSome(arg[1].stream[LoopEnd].result)
                                       THEN arg[1].stream[LoopEnd].result[1]
                                       ELSE EmptyObject)
              /\ (arg[1].sendOk /\ LoopEnd \in Answers) =>
                    (ret[1].ok <=> ~IsSome(arg[1].stream[LoopEnd].error))
              /\ Answers = {} => ~ret[1].ok

\* the second request on the connection, answered after the stale response
\* to the first was skipped
C30_Witness ==
    /\ pc = "sent"
    /\ Len(calls) = 2
    /\ arg[1].id = 2
    /\ ret[1].ok
    /\ LoopEnd = 2
    /\ arg[1].stream[1].kind = "text"
    /\ arg[1].stream[1].id = Some(1)

(***************************************************************************)
(* One fiber node from the walker's JSON to its line.  props and           *)
(* html_attrs are serde_json::Map (TreeNode, src/src/snapshot.rs): the     *)
(* decoded map is iterated by key in a default build of serde_json and in  *)
(* the order of the JSON text when the crate is built with its             *)
(* preserve_order feature.  The sources carry no manifest, so both builds  *)
(* are modelled.                                                           *)
(***************************************************************************)
\* the keys of the model in the byte order of String
KeyOrder == <<"href", "id", "n">>

\* the entries (distinct keys, in the order of the JSON text) as the decoded
\* map iterates them
map_entries(preserve_order, entries) ==
    IF preserve_order THEN entries
    ELSE LET present == SelectSeq(KeyOrder,
                            LAMBDA key : \E k \in 1..Len(entries) : entries[k][1] = key)
         IN  [i \in 1..Len(present) |->
                 entries[CHOOSE k \in 1..Len(entries) : entries[k][1] = present[i]]]

\* a TreeNode decoded from the node the walker supplied
decode_tree_node(preserve_order, node) ==
    [node EXCEPT !.props = map_entries(preserve_order, @),
                 !.html_attrs = IF IsSome(@)
                                THEN Some(map_entries(preserve_order, @[1]))
                                ELSE None]

\* JSON values of every type a prop can have
PropValues ==
    { JString(<<"v">>), JNumber(<<"1">>), [t |-> "bool", s |-> <<"true">>],
      [t |-> "null", s |-> <<>>], [t |-> "object", s |-> <<>>] }

\* sequences of at most n entries with distinct keys
RECURSIVE EntrySeqs(_, _, _)
EntrySeqs(n, keys, values) ==
    IF n = 0 THEN {<<>>}
    ELSE LET shorter == EntrySeqs(n - 1, keys, values)
         IN  shorter \cup
             { Append(e, <<key, v>>) :
                 e \in {x \in shorter : Len(x) = n - 1}, key \in keys, v \in values }

DistinctKeys(entries) ==
    \A i, j \in 1..Len(entries) : entries[i][1] = entries[j][1] => i = j

DefaultOpts ==
    [interactive |-> FALSE, compact |-> FALSE, react |-> FALSE,
     max_depth |-> None, filter |-> None, full |-> FALSE, mini |-> FALSE]

InitLine ==
    /\ pc = "line"
    /\ \E comp \in BOOLEAN, aria \in {None, Some(<<"Hi">>)},
          ref \in {None, Some(<<"e1">>)} :
         \E props \in {e \in EntrySeqs(MaxProps, Range(KeyOrder), PropValues) :
                          DistinctKeys(e)} :
            \E attrs \in {None, Some(<<>>)}
                         \cup {Some(<< <<key, v>> >>) :
                                 key \in {"href", "id"},
                                 v \in {JString(<<"/">>), JNumber(<<"1">>)}} :
               /\ ~comp \/ attrs = None
               /\ tree = << [parent |-> 0, name |-> <<"N">>, is_component |-> comp,
                             props |-> props, ref_id |-> ref, aria_name |-> aria,
                             tag |-> IF comp THEN None ELSE Some(<<"a">>),
                             html_attrs |-> attrs] >>
    /\ \E b \in BOOLEAN : arg = Some([preserve_order |-> b])
    /\ opts = Some(DefaultOpts)
    /\ callOpts = Some(DefaultOpts)
    /\ calls = <<>>
    /\ path = "none"
    /\ evalKind = "none"
    /\ axKind = "none"
    /\ result = None
    /\ kind = "fiber"
    /\ emitted = <<>>
    /\ minified = FALSE
    /\ collapsed = None
    /\ miniRoots = <<>>
    /\ next_id = 1
    /\ page = None
    /\ ret = None

\* the node decoded, then formatted at depth 0
FormatLine ==
    /\ pc = "line"
    /\ LET t == [n \in 1..Len(tree) |->
                    decode_tree_node(arg[1].preserve_order, tree[n])]
       IN  emitted' = format_fiber_node(t, 1, 0, opts[1])
    /\ pc' = "line_done"
    /\ UNCHANGED <<opts, callOpts, calls, path, evalKind, axKind, result, kind,
                   tree, minified, collapsed, miniRoots, next_id, page, arg, ret>>

NextLine == FormatLine

SpecLine == InitLine /\ [][NextLine]_vars

(***************************************************************************)
(* The fiber probe: the script take_react_snapshot builds and its          *)
(* evaluation in the page.  A script is the sequence of its statements;    *)
(* `page` is the value of globalThis.__MAX_DEPTH in the page, None while   *)
(* it is undefined.  The global outlives an evaluation.                    *)
(***************************************************************************)
DefaultMaxDepth == 200

\* the text of fiber_walker.js alone
build_fiber_walker_script_bare(max_depth) ==
    << [stmt |-> "walker"] >>

\* the assignment of max_depth, then the text of fiber_walker.js
build_fiber_walker_script(max_depth) ==
    << [stmt |-> "assign", global |-> "__MAX_DEPTH", value |-> max_depth],
       [stmt |-> "walker"] >>

\* opts.max_depth.unwrap_or(200)
js_depth(o) == IF IsSome(o.max_depth) THEN o.max_depth[1] ELSE DefaultMaxDepth

\* the global as the walker finds it when the statements before it have run
RECURSIVE GlobalAtWalker(_, _)
GlobalAtWalker(script, global) ==
    IF Len(script) = 0 \/ Head(script).stmt = "walker" THEN global
    ELSE GlobalAtWalker(Tail(script), Some(Head(script).value))

InitProbe ==
    /\ pc = "page"
    /\ page = None
    /\ opts = None
    /\ callOpts = None
    /\ calls = <<>>
    /\ path = "none"
    /\ evalKind = "none"
    /\ axKind = "none"
    /\ result = None
    /\ kind = "none"
    /\ tree = <<>>
    /\ emitted = <<>>
    /\ minified = FALSE
    /\ collapsed = None
    /\ miniRoots = <<>>
    /\ next_id = 1
    /\ arg = None
    /\ ret = None

\* take_react_snapshot up to the evaluation of its script in the page
Probe(o) ==
    /\ pc \in {"page", "probed"}
    /\ Len(calls) < MaxCalls
    /\ o.react
    /\ LET script == build_fiber_walker_script(js_depth(o))
           seen   == GlobalAtWalker(script, page)
       IN  /\ ret' = Some([script |-> script, before |-> page, seen |-> seen])
           /\ page' = seen
    /\ arg' = Some(o)
    /\ calls' = Append(calls, "Runtime.evaluate")
    /\ pc' = "probed"
    /\ UNCHANGED <<opts, callOpts, path, evalKind, axKind, result, kind, tree,
                   emitted, minified, collapsed, miniRoots, next_id>>

NextProbe == \E o \in AllOpts : Probe(o)

SpecProbe == InitProbe /\ [][NextProbe]_vars

(***************************************************************************)
(* glob_match applied to drawn patterns and texts                          *)
(***************************************************************************)
\* strings of at most n atoms over an alphabet
StringsUpTo(n, alphabet) == UNION {[1..k -> alphabet] : k \in 0..n}

InitGlob ==
    /\ pc = "glob"
    /\ \E pattern \in StringsUpTo(MaxPattern, {"a", "b", "*"}),
          text \in StringsUpTo(MaxText, {"a", "b"}) :
          /\ \E k \in 1..Len(pattern) : pattern[k] = "*"
          /\ arg = Some([pattern |-> pattern, text |-> text])
    /\ ret = None
    /\ opts = None
    /\ callOpts = None
    /\ calls = <<>>
    /\ path = "none"
    /\ evalKind = "none"
    /\ axKind = "none"
    /\ result = None
    /\ kind = "none"
    /\ tree = <<>>
    /\ emitted = <<>>
    /\ minified = FALSE
    /\ collapsed = None
    /\ miniRoots = <<>>
    /\ next_id = 1
    /\ page = None

\* glob_match called as name_matches_filter calls it for a filter with `*`
ApplyGlob ==
    /\ pc = "glob"
    /\ ret' = Some(glob_match(arg[1].pattern, arg[1].text))
    /\ pc' = "glob_done"
    /\ UNCHANGED <<opts, callOpts, calls, path, evalKind, axKind, result, kind,
                   tree, emitted, minified, collapsed, miniRoots, next_id, page,
                   arg>>

NextGlob == ApplyGlob

SpecGlob == InitGlob /\ [][NextGlob]_vars

(***************************************************************************)
(* Measures used by the properties                                         *)
(***************************************************************************)
\* number of leading space atoms of a line
RECURSIVE LeadingSpaces(_)
LeadingSpaces(line) ==
    IF Len(line) = 0 \/ Head(line) # " " THEN 0
    ELSE 1 + LeadingSpaces(Tail(line))

\* proper ancestors of node n, following parent links
RECURSIVE Ancestors(_, _)
Ancestors(t, n) ==
    IF t[n].parent = 0 THEN {}
    ELSE {t[n].parent} \cup Ancestors(t, t[n].parent)

(***************************************************************************)
(* Properties of the dispatcher (checked under Spec)                       *)
(***************************************************************************)

\* C1: take_snapshot selects its source by the precedence mini > full >
\* react > AX: mini set runs the mini DOM path whatever the other flags are,
\* else full set runs the full DOM path, else react set runs the fiber path,
\* otherwise the AX path runs.
C1_ModePrecedence ==
    IsSome(callOpts) =>
        path = (IF callOpts[1].mini THEN "mini"
                ELSE IF callOpts[1].full THEN "full"
                ELSE IF callOpts[1].react THEN "fiber"
                ELSE "ax")

\* C2: in react mode, when the probe value does not decode or decodes with
\* found == false, the call returns exactly what the AX path returns for the
\* caller's options with only react cleared, after one eval and one
\* getFullAXTree, and nothing of the fiber path (no fiber line, no warning
\* line) is in the output.
C2_FallbackIsAXPath ==
    (pc = "done" /\ evalKind \in {"unparsable", "not_found"}) =>
        LET o == [callOpts[1] EXCEPT !.react = FALSE]
        IN  /\ callOpts[1].react
            /\ calls = <<"Runtime.evaluate", "Accessibility.getFullAXTree">>
            /\ axKind # "none"
            /\ axKind = "nodes" =>
                 /\ kind = "ax"
                 /\ result = aria_result(tree, o)
                 /\ emitted = (IF Len(Children(tree, 0)) = 0 THEN <<>>
                               ELSE format_ax_roots(tree, o))
                 /\ \A k \in 1..Len(emitted) :
                      emitted[k].line =
                          format_ax_node(tree, emitted[k].id, emitted[k].depth,
                                         [o EXCEPT !.max_depth = None])[1].line
                 /\ WarningLine[1] \notin Range(result[1].text)
            /\ axKind # "nodes" => result = Err /\ emitted = <<>>

\* a fallback after found == false that rendered AX lines of an interactive
\* snapshot
C2_Witness ==
    /\ pc = "done"
    /\ evalKind = "not_found"
    /\ axKind = "nodes"
    /\ callOpts[1].interactive
    /\ IsSome(callOpts[1].max_depth)
    /\ Len(emitted) > 0
    /\ Len(tree) > Len(emitted)

\* C3: apart from the two fiber fallbacks every failure makes take_snapshot
\* return an error and no output text (a transport error of the fiber eval, a
\* transport error of getFullAXTree also when reached through the fallback, a
\* response without `nodes`, undecodable `nodes`), and a transport error of
\* the fiber eval never triggers the AX fallback.
C3_FailuresPropagate ==
    /\ (pc = "done" /\ (evalKind = "error"
                        \/ axKind \in {"error", "no_nodes", "bad_nodes"})) =>
          /\ result = Err
          /\ emitted = <<>>
    /\ evalKind = "error" =>
          /\ pc = "done"
          /\ calls = <<"Runtime.evaluate">>
          /\ axKind = "none"
    /\ (pc = "done" /\ IsSome(result) /\ ~result[1].ok) =>
          (evalKind = "error" \/ axKind \in {"error", "no_nodes", "bad_nodes"})

\* the AX call made by the fallback failed in transport
C3_Witness ==
    /\ pc = "done"
    /\ evalKind = "unparsable"
    /\ axKind = "error"
    /\ result = Err

\* C4: after AX reconstruction from the flat `nodes` array, every id in
\* N.child_ids that names an input node appears exactly once as a child of N
\* (in child_ids order) and nowhere else in the output forest, so that every
\* input node reachable from a root through child_ids is rendered.
C4_ChildIdsBecomeChildren ==
    (pc = "done" /\ axKind = "nodes") =>
        \A i \in Range(Children(tree, 0)) :
            LET named == SelectSeq(tree[i].child_ids,
                                   LAMBDA id : \E j \in Range(Children(tree, 0)) :
                                                  tree[j].node_id = id)
            IN  /\ Len(Children(tree, i)) = Len(named)
                /\ \A k \in 1..Len(named) :
                      tree[Children(tree, i)[k]].node_id = named[k]

(***************************************************************************)
(* Properties of the formatters (checked under SpecFormat).  The expected  *)
(* output is described node by node from the tree, without the traversal.  *)
(***************************************************************************)
Formatted == pc = "fmt_done"

MaxDepthAllows(d) == ~IsSome(opts[1].max_depth) \/ d <= opts[1].max_depth[1]

\* node n or one of its descendants
InSubtree(m, n) == m = n \/ n \in Ancestors(tree, m)

\* the positions of `emitted` that node n pushed
EmissionsOf(n) == {k \in 1..Len(emitted) : emitted[k].id = n}

\* --- AX ---
AXRole(n) == unwrap_or_default(ax_value_str(tree[n].role))

AXName(n) == unwrap_or_default(ax_value_str(tree[n].name))

AXSkipped(n) ==
    \/ AXRole(n) \in {<<"none">>, <<"Ignored">>, <<"generic">>}
    \/ opts[1].interactive /\ ~(\E r \in INTERACTIVE_ROLES : AXRole(n) = <<r>>)
    \/ /\ opts[1].compact
       /\ AXName(n) = <<>>
       /\ ~(\E r \in INTERACTIVE_ROLES : AXRole(n) = <<r>>)

\* the depth at which the formatter meets node n: its unskipped ancestors
AXDepth(n) == Cardinality({a \in Ancestors(tree, n) : ~AXSkipped(a)})

\* n lies under a root the AX path formats, within max_depth
AXWithin(n) ==
    /\ \E r \in Range(build_ax_tree(Children(tree, 0))) : InSubtree(n, r)
    /\ MaxDepthAllows(AXDepth(n))

\* C5: AX formatter: a node within max_depth emits no line and has its
\* children rendered at its own depth exactly when its role is none, Ignored
\* or generic, or interactive is set and its role is not interactive, or
\* compact is set and its name is empty and its role is not interactive; every
\* other node within max_depth emits exactly one line (`- role`, or
\* `- role "name"` when the name is non-empty) and its children are rendered
\* at depth+1; so with interactive set every emitted line has an interactive
\* role.
C5_AXFormatterRule ==
    (Formatted /\ kind = "ax") =>
        /\ \A n \in 1..Len(tree) :
              IF AXWithin(n) /\ ~AXSkipped(n)
              THEN /\ Cardinality(EmissionsOf(n)) = 1
                   /\ \A k \in EmissionsOf(n) :
                         /\ emitted[k].depth = AXDepth(n)
                         /\ emitted[k].line =
                               Indent(AXDepth(n)) \o <<"-", " ">> \o AXRole(n)
                               \o (IF AXName(n) = <<>> THEN <<>>
                                   ELSE <<" ", "\"">> \o AXName(n) \o <<"\"">>)
              ELSE EmissionsOf(n) = {}
        /\ \A k \in 1..Len(emitted) :
              LET p == tree[emitted[k].id].parent
              IN  p # 0 =>
                    emitted[k].depth = AXDepth(p) + (IF AXSkipped(p) THEN 0 ELSE 1)
        /\ opts[1].interactive =>
              \A k \in 1..Len(emitted) :
                 AXRole(emitted[k].id)[1] \in INTERACTIVE_ROLES

\* compact promoted the child of an unnamed heading to the heading's depth,
\* below an emitted ancestor, and kept an unnamed button
C5_Witness ==
    /\ Formatted
    /\ kind = "ax"
    /\ opts[1].compact
    /\ ~opts[1].interactive
    /\ \E k \in 1..Len(emitted) :
          LET p == tree[emitted[k].id].parent
          IN  /\ p # 0
              /\ AXRole(p) = <<"heading">>
              /\ AXSkipped(p)
              /\ emitted[k].depth = 1
              /\ AXRole(emitted[k].id) = <<"button">>
              /\ AXName(emitted[k].id) = <<>>

\* --- fiber ---
FiberMatches(n) ==
    IsSome(opts[1].filter) /\ name_matches_filter(tree[n].name, opts[1].filter[1])

\* the nodes format_fiber_node is started on at depth 0
FiberBlockRoots ==
    IF IsSome(opts[1].filter)
    THEN {n \in 1..Len(tree) :
            FiberMatches(n) /\ \A a \in Ancestors(tree, n) : ~FiberMatches(a)}
    ELSE Range(Children(tree, 0))

\* the ancestors of n inside the block that holds n
FiberInside(n) ==
    {a \in Ancestors(tree, n) : \E r \in FiberBlockRoots : InSubtree(a, r)}

IsInteractiveHost(n) ==
    /\ ~tree[n].is_component
    /\ IsSome(tree[n].tag)
    /\ \E g \in INTERACTIVE_TAGS : tree[n].tag[1] = <<g>>

FiberSkipped(n) ==
    opts[1].interactive /\ ~tree[n].is_component /\ ~IsInteractiveHost(n)

\* n or a descendant of n at any depth is an interactive host
HasInteractiveHost(n) ==
    \E m \in 1..Len(tree) : InSubtree(m, n) /\ IsInteractiveHost(m)

FiberDropped(n) ==
    opts[1].compact /\ tree[n].is_component /\ ~HasInteractiveHost(n)

FiberDepth(n) == Cardinality({a \in FiberInside(n) : ~FiberSkipped(a)})

\* format_fiber_node is called on n with a depth within max_depth
FiberReached(n) ==
    /\ \E r \in FiberBlockRoots : InSubtree(n, r)
    /\ \A a \in FiberInside(n) : ~FiberDropped(a)
    /\ MaxDepthAllows(FiberDepth(n))

\* the formatter of the tree's kind without max_depth
Unrestricted ==
    LET o == [opts[1] EXCEPT !.max_depth = None]
    IN  IF kind = "fiber" THEN format_fiber_roots(tree, Children(tree, 0), o)
        ELSE IF kind = "ax" THEN format_ax_roots(tree, o)
        ELSE format_dom_node(tree, 1, 0, o)

\* C6: with max_depth = d, in every formatter (AX, fiber, DOM) no line is
\* emitted at a depth greater than d (none is indented by more than 2*d
\* spaces), a node reached at depth > d contributes neither its own line nor a
\* line of a descendant, and the nodes at depth <= d are unaffected.
C6_MaxDepthCut ==
    (Formatted /\ IsSome(opts[1].max_depth)) =>
        LET d == opts[1].max_depth[1]
            full == Unrestricted
        IN  /\ \A k \in 1..Len(emitted) :
                  /\ emitted[k].depth <= d
                  /\ LeadingSpaces(emitted[k].line) <= 2 * d
            /\ emitted = SelectSeq(full, LAMBDA e : e.depth <= d)
            /\ \A j \in 1..Len(full) :
                  full[j].depth > d =>
                     \A k \in 1..Len(emitted) :
                        ~InSubtree(emitted[k].id, full[j].id)

\* a fiber snapshot where max_depth removed a line and kept another
C6_Witness ==
    /\ Formatted
    /\ kind = "fiber"
    /\ IsSome(opts[1].max_depth)
    /\ Len(emitted) > 0
    /\ \E j \in 1..Len(Unrestricted) :
          /\ Unrestricted[j].depth > opts[1].max_depth[1]
          /\ EmissionsOf(Unrestricted[j].id) = {}

\* the lines emitted for root r and its descendants
LinesUnder(r) == {k \in 1..Len(emitted) : InSubtree(emitted[k].id, r)}

\* C7 as stated: with max_depth = 0 the fiber formatter emits at most one line
\* per root of the probe's tree, for every tree and every combination of
\* interactive and compact.
C7_OneLinePerRoot_AnyOptions ==
    (/\ Formatted
     /\ kind = "fiber"
     /\ opts[1].max_depth = Some(0)
     /\ ~IsSome(opts[1].filter)) =>
        \A r \in Range(Children(tree, 0)) : Cardinality(LinesUnder(r)) <= 1

\* C7 amended: with max_depth = 0, interactive unset and no filter, the fiber
\* formatter emits at most one line per root of the probe's tree, for every
\* tree and both values of compact.
C7_OneLinePerRoot ==
    (/\ Formatted
     /\ kind = "fiber"
     /\ opts[1].max_depth = Some(0)
     /\ ~IsSome(opts[1].filter)
     /\ ~opts[1].interactive) =>
        \A r \in Range(Children(tree, 0)) : Cardinality(LinesUnder(r)) <= 1

\* compact set, a root with two children, and exactly the root's line
C7_Witness ==
    /\ Formatted
    /\ kind = "fiber"
    /\ opts[1].max_depth = Some(0)
    /\ ~IsSome(opts[1].filter)
    /\ ~opts[1].interactive
    /\ opts[1].compact
    /\ \E r \in Range(Children(tree, 0)) :
          /\ Len(Children(tree, r)) = 2
          /\ Cardinality(LinesUnder(r)) = 1

\* the ancestors of the node of line k whose own line was emitted earlier in
\* the same depth-0 block
EmittedAncestors(k) ==
    {a \in Ancestors(tree, emitted[k].id) :
        \E m \in 1..(k - 1) :
            /\ emitted[m].id = a
            /\ \A j \in (m + 1)..k : emitted[j].depth # 0}

\* C8: in AX and fiber output, under every combination of interactive,
\* compact, filter and max_depth, each line is indented by exactly 2 x k
\* spaces, k being the number of ancestors of its node whose own line was
\* emitted inside the same depth-0 block; skipped ancestors add nothing.
C8_IndentIsEmittedDepth ==
    (Formatted /\ kind \in {"ax", "fiber"}) =>
        \A k \in 1..Len(emitted) :
            LeadingSpaces(emitted[k].line) = 2 * Cardinality(EmittedAncestors(k))

\* a fiber line with one emitted and one skipped ancestor
C8_Witness ==
    /\ Formatted
    /\ kind = "fiber"
    /\ \E k \in 1..Len(emitted) :
          /\ Cardinality(Ancestors(tree, emitted[k].id)) = 2
          /\ Cardinality(EmittedAncestors(k)) = 1
          /\ LeadingSpaces(emitted[k].line) = 2

\* the ids emitted with the interactive option cleared
EmittedWithoutInteractive ==
    LET em == format_fiber_roots(tree, Children(tree, 0),
                                 [opts[1] EXCEPT !.interactive = FALSE])
    IN  {em[k].id : k \in 1..Len(em)}

\* C9: with interactive set, every line the fiber formatter emits for a host
\* node has a tag in INTERACTIVE_TAGS; a host node with any other tag emits no
\* line and its children are rendered at its own depth; component nodes are
\* never removed by interactive.
C9_InteractiveHosts ==
    (Formatted /\ kind = "fiber" /\ opts[1].interactive) =>
        /\ \A k \in 1..Len(emitted) :
              ~tree[emitted[k].id].is_component => IsInteractiveHost(emitted[k].id)
        /\ \A n \in 1..Len(tree) :
              (FiberReached(n) /\ ~tree[n].is_component /\ ~IsInteractiveHost(n)) =>
                 /\ EmissionsOf(n) = {}
                 /\ \A c \in Range(Children(tree, n)) :
                       /\ FiberReached(c)
                       /\ \A k \in EmissionsOf(c) : emitted[k].depth = FiberDepth(n)
        /\ \A n \in 1..Len(tree) :
              tree[n].is_component =>
                 /\ (FiberReached(n) /\ ~FiberDropped(n)) =>
                       Cardinality(EmissionsOf(n)) = 1
                 /\ n \in EmittedWithoutInteractive => EmissionsOf(n) # {}

\* a skipped div under an emitted component, its interactive child promoted
C9_Witness ==
    /\ Formatted
    /\ kind = "fiber"
    /\ opts[1].interactive
    /\ \E k \in 1..Len(emitted) :
          LET p == tree[emitted[k].id].parent
          IN  /\ p # 0
              /\ ~tree[p].is_component
              /\ ~IsInteractiveHost(p)
              /\ tree[p].parent # 0
              /\ tree[tree[p].parent].is_component
              /\ EmissionsOf(tree[p].parent) # {}
              /\ emitted[k].depth = 1

\* C10: with compact set, every component whose line the fiber formatter
\* emits has itself or a descendant that is a host with a tag in
\* INTERACTIVE_TAGS; a component without one emits nothing for its whole
\* subtree (its children are not promoted); has_interactive_descendant counts
\* the node itself and descendants at any depth.
C10_CompactComponents ==
    (Formatted /\ kind = "fiber" /\ opts[1].compact) =>
        /\ \A k \in 1..Len(emitted) :
              tree[emitted[k].id].is_component => HasInteractiveHost(emitted[k].id)
        /\ \A n \in 1..Len(tree) :
              (tree[n].is_component /\ ~HasInteractiveHost(n)
               /\ \E r \in FiberBlockRoots : InSubtree(n, r)) =>
                 LinesUnder(n) = {}
        /\ \A n \in 1..Len(tree) :
              has_interactive_descendant(tree, n) = HasInteractiveHost(n)

\* an emitted component whose only interactive host is a grandchild
C10_Witness ==
    /\ Formatted
    /\ kind = "fiber"
    /\ opts[1].compact
    /\ \E k \in 1..Len(emitted) :
          LET n == emitted[k].id
          IN  /\ tree[n].is_component
              /\ \A c \in Range(Children(tree, n)) : ~IsInteractiveHost(c)
              /\ HasInteractiveHost(n)

\* --- name filter ---
StartsWith(text, p) == Len(p) <= Len(text) /\ SubSeq(text, 1, Len(p)) = p

EndsWith(text, p) ==
    Len(p) <= Len(text) /\ SubSeq(text, Len(text) - Len(p) + 1, Len(text)) = p

Contains(text, p) ==
    \E k \in 0..(Len(text) - Len(p)) : SubSeq(text, k + 1, k + Len(p)) = p

\* what the filter f asks of a name, for the three forms S, *P and P*
FilterAsks(name, f) ==
    LET nm == to_ascii_lowercase(name)
        fl == to_ascii_lowercase(f)
    IN  IF "*" \notin Range(f) THEN Contains(nm, fl)
        ELSE IF f[1] = "*" /\ "*" \notin Range(Tail(f)) THEN EndsWith(nm, Tail(fl))
        ELSE IF f[Len(f)] = "*" /\ "*" \notin Range(SubSeq(f, 1, Len(f) - 1))
        THEN StartsWith(nm, SubSeq(fl, 1, Len(fl) - 1))
        ELSE TRUE

FilteredFiber == Formatted /\ kind = "fiber" /\ IsSome(opts[1].filter)

\* n was promoted to depth 0 through hosts skipped by interactive, the topmost
\* of which the filter asked for
PromotedFromMatch(n) ==
    \E a \in Ancestors(tree, n) :
        /\ FilterAsks(tree[a].name, opts[1].filter[1])
        /\ \A b \in Ancestors(tree, n) : InSubtree(b, a) => FiberSkipped(b)

\* C11 as stated: in fiber mode with a filter set, for all trees and all
\* combinations of interactive, compact and max_depth, every line emitted at
\* depth 0 belongs to a node whose name matches the filter case-insensitively
\* (contains S for S, ends with P for *P, starts with P for P*).
C11_DepthZeroMatches_AnyOptions ==
    FilteredFiber =>
        \A k \in 1..Len(emitted) :
            emitted[k].depth = 0 =>
                FilterAsks(tree[emitted[k].id].name, opts[1].filter[1])

\* C11 amended: in fiber mode with a filter set, for all trees and all
\* combinations of compact and max_depth, every line emitted at depth 0
\* belongs to a node whose name matches the filter case-insensitively when
\* interactive is unset; with interactive set it belongs to such a node or to
\* a node promoted through skipped hosts from a skipped host that matches.
C11_DepthZeroMatches ==
    FilteredFiber =>
        \A k \in 1..Len(emitted) :
            emitted[k].depth = 0 =>
                \/ FilterAsks(tree[emitted[k].id].name, opts[1].filter[1])
                \/ opts[1].interactive /\ PromotedFromMatch(emitted[k].id)

\* a match found below a non-matching root, emitted at depth 0 with a child
\* line under it, for a filter of the form *P
C11_Witness ==
    /\ FilteredFiber
    /\ opts[1].filter[1][1] = "*"
    /\ ~opts[1].interactive
    /\ \E k \in 1..(Len(emitted) - 1) :
          /\ emitted[k].depth = 0
          /\ tree[emitted[k].id].parent # 0
          /\ emitted[k + 1].depth = 1

\* C12: with a filter set, every node of the fiber tree whose name matches
\* the filter is emitted as its own depth-0 root subtree, including a matching
\* node that lies inside the subtree of another matching node (stated here for
\* interactive and compact unset, where a root always emits its line).
C12_EveryMatchIsARoot ==
    (FilteredFiber /\ ~opts[1].interactive /\ ~opts[1].compact) =>
        \A n \in 1..Len(tree) :
            FilterAsks(tree[n].name, opts[1].filter[1]) =>
                \E k \in EmissionsOf(n) : emitted[k].depth = 0

(***************************************************************************)
(* Properties of the returned text (checked under Spec)                    *)
(***************************************************************************)
Returned == pc = "done" /\ IsSome(result) /\ result[1].ok

\* the text cut at its "\n" atoms
RECURSIVE SplitLines(_)
SplitLines(text) ==
    LET nls == {k \in 1..Len(text) : text[k] = "\n"}
    IN  IF nls = {} THEN <<text>>
        ELSE LET k == CHOOSE x \in nls : \A y \in nls : x <= y
             IN  <<SubSeq(text, 1, k - 1)>> \o SplitLines(SubSeq(text, k + 1, Len(text)))

ReturnedLines == SplitLines(result[1].text)

\* C13: on the fiber path, whenever rendering emits no node line (empty tree,
\* a filter that matches no node, or compact dropping every root),
\* take_snapshot returns exactly "(empty)", for either value of all_minified.
C13_FiberEmptySentinel ==
    (Returned /\ kind = "fiber" /\ emitted = <<>>) =>
        result[1].text = <<"(empty)">>

\* C14: on the fiber path, when the probe reports all_minified the first line
\* of the output is exactly the warning line and it appears once; when
\* all_minified is false, or when the call falls back to AX, that line is
\* never emitted.
C14_MinifiedWarning ==
    Returned =>
        LET n == Cardinality({k \in 1..Len(ReturnedLines) :
                                 ReturnedLines[k] = WarningLine})
        IN  IF kind = "fiber" /\ minified
            THEN ReturnedLines[1] = WarningLine /\ n = 1
            ELSE n = 0

\* a minified build whose tree rendered two lines or more
C14_Witness ==
    /\ Returned
    /\ kind = "fiber"
    /\ minified
    /\ Len(emitted) >= 2
    /\ Len(ReturnedLines) = Len(emitted) + 1

\* C15: the AX path returns "(empty page)" exactly when the `nodes` array is
\* empty or formatting emits no line, and otherwise returns the emitted lines;
\* a successful take_snapshot never returns the empty string in any mode.
C15_AXEmptySentinel ==
    Returned =>
        /\ result[1].text # <<>>
        /\ kind = "ax" =>
              /\ result[1].text = <<"(empty page)">>
                    <=> (Len(tree) = 0 \/ emitted = <<>>)
              /\ emitted # <<>> => result[1].text = Join(Lines(emitted))

\* a non-empty `nodes` array of which no node emitted a line
C15_Witness ==
    /\ Returned
    /\ kind = "ax"
    /\ Len(tree) > 0
    /\ emitted = <<>>
    /\ result[1].text = <<"(empty page)">>

\* C16: every successful snapshot output is a sequence of lines joined by a
\* single "\n" with no trailing newline, and no line ends with a space
\* character, for every input tree (including AX nodes whose role is absent
\* and fiber nodes whose name is empty).
C16_NoTrailingSpace ==
    Returned =>
        /\ result[1].text[Len(result[1].text)] # "\n"
        /\ \A k \in 1..Len(ReturnedLines) :
              /\ ReturnedLines[k] # <<>>
              /\ ReturnedLines[k][Len(ReturnedLines[k])] # " "

RECURSIVE NodesOf(_)
NodesOf(node) ==
    {node} \cup UNION {NodesOf(node.children[i]) : i \in 1..Len(node.children)}

Collapsed == pc \in {"collapsed", "mini_roots"} /\ kind = "mini"

\* C18: mini collapse is idempotent under structural equality: for every DOM
\* tree T for which collapse(T) returns a node, collapse(collapse(T)) returns
\* the same node, including when collapse(T) is a top-level fragment.
C18_CollapseIdempotent ==
    (Collapsed /\ IsSome(collapsed)) =>
        collapse_dom_tree(collapsed[1]) = collapsed

\* the result is a top-level fragment that holds a fragment
C18_Witness ==
    /\ Collapsed
    /\ IsSome(collapsed)
    /\ is_fragment(collapsed[1])
    /\ \E i \in 1..Len(collapsed[1].children) :
          is_fragment(collapsed[1].children[i])

\* C19: after mini collapse no node of the result has at once no tag, no
\* text and no children, and after the top-level flattening of the mini path
\* no fragment remains anywhere in the forest that is rendered.
C19_NoEmptyNodeNoFragment ==
    /\ (Collapsed /\ IsSome(collapsed)) =>
          \A x \in NodesOf(collapsed[1]) :
             ~(is_fragment(x) /\ Len(x.children) = 0)
    /\ (pc = "mini_roots" /\ kind = "mini") =>
          \A i \in 1..Len(miniRoots) :
             \A x \in NodesOf(miniRoots[i]) : ~is_fragment(x)

\* a kept root whose plain wrapper child was replaced by the wrapper's child
C19_Witness ==
    /\ pc = "mini_roots"
    /\ kind = "mini"
    /\ Len(tree) = 3
    /\ tree[2].parent = 1
    /\ tree[3].parent = 2
    /\ tree[2].tag = Some(<<"div">>)
    /\ tree[2].attrs = <<>>
    /\ Len(miniRoots) = 1
    /\ IsSome(miniRoots[1].tag)
    /\ Len(miniRoots[1].children) = 1
    /\ miniRoots[1].children[1] = Nest(tree, 3)

\* the nodes of the input that are no fragment and lie under fragments only
KeptByFlatten ==
    SelectSeq([n \in 1..Len(tree) |-> n],
              LAMBDA n : /\ ~is_fragment(tree[n])
                         /\ \A a \in Ancestors(tree, n) : is_fragment(tree[a]))

\* C20: flatten_fragments is idempotent and complete: for every sequence of
\* DOM nodes the result contains no fragment at its top level, keeps all
\* non-fragment nodes in their original relative order, and
\* flatten_fragments(flatten_fragments(s)) == flatten_fragments(s).
C20_FlattenIdempotent ==
    (pc = "flattened" /\ kind = "nodes") =>
        /\ \A i \in 1..Len(miniRoots) : ~is_fragment(miniRoots[i])
        /\ miniRoots = [i \in 1..Len(KeptByFlatten) |-> Nest(tree, KeptByFlatten[i])]
        /\ flatten_fragments(miniRoots) = miniRoots

\* a fragment inside a fragment expanded, between two nodes that are kept
C20_Witness ==
    /\ pc = "flattened"
    /\ kind = "nodes"
    /\ Len(miniRoots) >= 1
    /\ \E n \in 1..Len(tree) :
          /\ is_fragment(tree[n])
          /\ tree[n].parent # 0
          /\ is_fragment(tree[tree[n].parent])
          /\ \E c \in Range(Children(tree, n)) : ~is_fragment(tree[c])

(***************************************************************************)
(* Properties of the AX reconstruction                                     *)
(***************************************************************************)
\* the ids some input node names in its child_ids
ReferencedIds == UNION {Range(tree[i].child_ids) : i \in 1..Len(tree)}

\* C22: the roots of the reconstructed AX forest are exactly the input nodes
\* whose node_id occurs in no node's child_ids, in input order; only when
\* every node is referenced is the first input node the sole root.
C22_RootsAreUnreferenced ==
    (pc = "done" /\ axKind = "nodes" /\ Len(tree) > 0) =>
        LET top   == Children(tree, 0)
            unref == SelectSeq(top, LAMBDA i : tree[i].node_id \notin ReferencedIds)
        IN  build_ax_tree(top) = (IF Len(unref) = 0 THEN <<top[1]>> ELSE unref)

PlainStructural(n) ==
    /\ IsSome(n.tag)
    /\ \E g \in STRUCTURAL_TAGS : n.tag[1] = <<g>>
    /\ ~IsSome(n.text)
    /\ \A k \in 1..Len(n.attrs) : ~is_meaningful_attr(n.attrs[k][1])

RECURSIVE KeptProjection(_)
\* the input forest with every removed wrapper replaced by its kept
\* descendants: each kept node under its nearest kept ancestor, in source order
KeptProjection(ns) ==
    Flatten([k \in 1..Len(ns) |->
        IF PlainStructural(ns[k]) THEN KeptProjection(ns[k].children)
        ELSE << [tag |-> ns[k].tag, text |-> ns[k].text, attrs |-> ns[k].attrs,
                 children |-> KeptProjection(ns[k].children)] >>])

\* C24: in the mini output no rendered element is a structural tag with
\* neither a meaningful attribute nor text; every non-structural element,
\* every element with a meaningful attribute and every text node of the input
\* is kept with all its attributes, in source order, under its nearest kept
\* ancestor.
C24_MiniKeepsMeaningfulNodes ==
    (pc = "mini_roots" /\ kind = "mini") =>
        /\ \A i \in 1..Len(miniRoots) :
              \A n \in NodesOf(miniRoots[i]) : ~PlainStructural(n)
        /\ miniRoots = KeptProjection(<<Nest(tree, 1)>>)

\* a wrapper without a meaningful attribute around a link and a text: the
\* link and the text are the output roots
C24_Witness ==
    /\ pc = "mini_roots"
    /\ kind = "mini"
    /\ PlainStructural(Nest(tree, 1))
    /\ Len(Children(tree, 1)) = 2
    /\ Len(miniRoots) = 2
    /\ miniRoots[1].tag = Some(<<"a">>)
    /\ miniRoots[2].tag = None

\* the table of the forest the mini path renders
MiniTable == TableFrom(miniRoots, 0, 0)

\* the full DOM formatter on the same forest
FullOfMini == format_dom_children(MiniTable, Children(MiniTable, 0), 0, opts[1])

\* node n is the sole child, a text node, of its parent
InlinedChild(n) == MiniTable[n].parent # 0 /\ inlines_text(MiniTable, MiniTable[n].parent)

\* C25: mini formatter: a node whose child list is exactly one text node
\* renders that text inline on its own line as ` "text"` and emits no child
\* line; a node with two or more children, or a single element child, renders
\* every child on its own line at depth+1; apart from this rule the mini and
\* full DOM formatters produce the same lines.
C25_MiniInlinesSoleText ==
    (pc = "mini_fmt") =>
        LET full == SelectSeq(FullOfMini, LAMBDA e : ~InlinedChild(e.id))
        IN  emitted =
              [k \in 1..Len(full) |->
                 IF inlines_text(MiniTable, full[k].id)
                 THEN [full[k] EXCEPT !.line =
                          @ \o <<" ", "\"">>
                            \o MiniTable[Children(MiniTable, full[k].id)[1]].text[1]
                            \o <<"\"">>]
                 ELSE full[k]]

\* a kept root whose single element child is on its own line at depth 1, the
\* child's sole text inlined
C25_Witness ==
    /\ pc = "mini_fmt"
    /\ Len(MiniTable) = 3
    /\ Len(emitted) = 2
    /\ emitted[1].id = 1
    /\ ~inlines_text(MiniTable, 1)
    /\ emitted[2].id = 2
    /\ emitted[2].depth = 1
    /\ inlines_text(MiniTable, 2)

(***************************************************************************)
(* Properties of the fiber line (checked under SpecLine)                   *)
(***************************************************************************)
\* the props of the supplied node rendered in their supplied order
SuppliedPropsText ==
    LET node == tree[1]
    IN  Flatten([k \in 1..Len(node.props) |-> PropText(node.props[k])])

\* C26: a fiber line is built in the fixed order: name; accessible name in
\* quotes (host nodes only, never for a component); `[ref=id]`; props in
\* supplied order rendered by JSON type; then html_attrs entries with string
\* values whose key is not already a prop, so that no attribute key is
\* rendered twice on one line.
C26_FiberLineOrder ==
    (pc = "line_done") =>
        LET node == tree[1]
        IN  /\ Len(emitted) = 1
            /\ emitted[1].line =
                  <<"-", " ">> \o node.name
                  \o (IF ~node.is_component /\ IsSome(node.aria_name)
                      THEN <<" ", "\"">> \o node.aria_name[1] \o <<"\"">> ELSE <<>>)
                  \o (IF IsSome(node.ref_id)
                      THEN <<" ", "[", "ref", "=">> \o node.ref_id[1] \o <<"]">>
                      ELSE <<>>)
                  \o SuppliedPropsText
                  \o (IF IsSome(node.html_attrs) /\ Len(node.html_attrs[1]) = 1
                         /\ node.html_attrs[1][1][2].t = "string"
                         /\ \A k \in 1..Len(node.props) :
                               node.props[k][1] # node.html_attrs[1][1][1]
                      THEN <<" ", node.html_attrs[1][1][1], "=", "\"">>
                           \o node.html_attrs[1][1][2].s \o <<"\"">>
                      ELSE <<>>)

(***************************************************************************)
(* Properties of the transport calls of one take_snapshot                  *)
(***************************************************************************)
\* C27: one take_snapshot call performs at most two transport calls in a
\* fixed order: in AX mode exactly one Accessibility.getFullAXTree send and no
\* eval; in react mode exactly one eval first, followed by an
\* Accessibility.getFullAXTree send only if that eval succeeded and its value
\* was unparsable or had found == false; no other CDP method is invoked and
\* nothing is carried over from one call to the next.
C27_TransportCalls ==
    /\ Len(calls) <= 2
    /\ \A k \in 1..Len(calls) :
          calls[k] \in {"Runtime.evaluate", "Accessibility.getFullAXTree"}
    /\ (pc # "idle" /\ ~callOpts[1].react) =>
          calls = <<"Accessibility.getFullAXTree">>
    /\ (pc # "idle" /\ callOpts[1].react) =>
          /\ calls[1] = "Runtime.evaluate"
          /\ Len(calls) = 2 =>
                /\ calls[2] = "Accessibility.getFullAXTree"
                /\ evalKind \in {"unparsable", "not_found"}
          /\ (pc = "done" /\ evalKind \in {"unparsable", "not_found"}) =>
                Len(calls) = 2
    /\ pc = "idle" => Idle

\* a react call that fell back: the eval, then the AX request
C27_Witness ==
    /\ pc = "done"
    /\ callOpts[1].react
    /\ evalKind = "not_found"
    /\ calls = <<"Runtime.evaluate", "Accessibility.getFullAXTree">>

(***************************************************************************)
(* Properties of the fiber probe (checked under SpecProbe)                 *)
(***************************************************************************)
\* C28: every fiber probe evaluation assigns globalThis.__MAX_DEPTH as the
\* first statement of the very expression that is evaluated, to max_depth
\* when it is given and to 200 otherwise, so the depth the walker sees in a
\* call is determined by that call's options alone and never by a value left
\* behind by an earlier call.
C28_DepthSetByEachProbe ==
    (pc = "probed") =>
        LET d == IF IsSome(arg[1].max_depth) THEN arg[1].max_depth[1] ELSE 200
        IN  /\ ret[1].script[1] =
                  [stmt |-> "assign", global |-> "__MAX_DEPTH", value |-> d]
            /\ ret[1].seen = Some(d)

\* a probe without max_depth after one that left 0 behind
C28_Witness ==
    /\ pc = "probed"
    /\ Len(calls) = 2
    /\ ret[1].before = Some(0)
    /\ arg[1].max_depth = None
    /\ ret[1].seen = Some(200)

(***************************************************************************)
(* Properties of glob_match (checked under SpecGlob)                       *)
(***************************************************************************)
\* the text is the pattern with each `*` replaced by some string
RECURSIVE Wildcard(_, _)
Wildcard(pattern, text) ==
    IF Len(pattern) = 0 THEN Len(text) = 0
    ELSE IF Head(pattern) = "*"
    THEN \/ Wildcard(Tail(pattern), text)
         \/ Len(text) > 0 /\ Wildcard(pattern, Tail(text))
    ELSE /\ Len(text) > 0
         /\ Head(text) = Head(pattern)
         /\ Wildcard(Tail(pattern), Tail(text))

\* C29: for every lowercase pattern containing `*` and every text over a
\* bounded alphabet, glob_match(pattern, text) is true exactly when the text
\* can be obtained from the pattern by replacing each `*` with some possibly
\* empty string; in particular `*P` matches every name that ends with P and
\* `A*B` every name that starts with A and ends with B, the two parts not
\* overlapping.
C29_GlobIsWildcardMatch ==
    (pc = "glob_done") =>
        ret[1] = Wildcard(arg[1].pattern, arg[1].text)

====
